---- MODULE Spec2Model ----
(***************************************************************************)
(* A model of ucow's 8080 code generator (src/src/codegen.py) and of the   *)
(* execution of the assembly text it emits.                                *)
(*                                                                         *)
(* The generator is a single object whose fields (output, variables,       *)
(* string_literals, label_counter, break_labels, continue_labels,          *)
(* nested_subs) are threaded through the gen_* operators as one record g.  *)
(* An emitted line is a record [op, r, n, l]: mnemonic or directive,       *)
(* register operand text, numeric operand, label operand.  Names and       *)
(* labels are strings, built as the code builds them.                      *)
(***************************************************************************)
EXTENDS Integers, Sequences, FiniteSets, TLC

VARIABLES
    program,          \* the type-checked input: declarations, statements
    phase,            \* "parsed" -> "emitted" -> "running"
    output,           \* CodeGenerator.output
    variables,        \* CodeGenerator.variables, in insertion order
    string_literals,  \* CodeGenerator.string_literals, in insertion order
    label_counter,    \* CodeGenerator.label_counter
    break_labels,     \* CodeGenerator.break_labels
    continue_labels,  \* CodeGenerator.continue_labels
    nested_subs,      \* CodeGenerator.nested_subs
    cpu,              \* the 8080 running the emitted code
    mem               \* its data segment and stack

vars == <<program, phase, output, variables, string_literals, label_counter,
          break_labels, continue_labels, nested_subs, cpu, mem>>

\* ------------------------------------------------------------------------
\* Emitted lines
\* ------------------------------------------------------------------------

Ins(op, r, n, l) == [op |-> op, r |-> r, n |-> n, l |-> l]
Op0(op)         == Ins(op, "", 0, "")
OpR(op, r)      == Ins(op, r, 0, "")
OpN(op, r, n)   == Ins(op, r, n, "")
OpL(op, r, l)   == Ins(op, r, 0, l)
LabelLine(l)     == Ins("LABEL", "", 0, l)
Blank            == Op0("")

\* self.output.append(line)
emit(g, line) == [g EXCEPT !.output = Append(@, line)]

\* a run of consecutive emit calls
emits(g, lines) == [g EXCEPT !.output = @ \o lines]

\* self.output.append(f"{label}:")
emit_label(g, label) == emit(g, LabelLine(label))

\* a label taken without bumping the counter
new_label_stale(g, prefix) ==
    [g |-> g, label |-> prefix \o ToString(g.label_counter + 1)]

\* sequencing: x is computed first, then F is applied to its value
Then(x, F(_)) == CHOOSE r \in {F(v) : v \in {x}} : TRUE

\* new_label: the counter is bumped, the label is prefix + str(counter)
new_label(g, prefix) ==
    [g     |-> [g EXCEPT !.label_counter = @ + 1],
     label |-> prefix \o ToString(g.label_counter + 1)]

\* ------------------------------------------------------------------------
\* Variables and strings
\* ------------------------------------------------------------------------

\* index of name in a dict kept as a sequence of entries, 0 when absent
RECURSIVE KeyIndex(_, _, _)
KeyIndex(dict, key, i) ==
    IF i > Len(dict) THEN 0
    ELSE IF dict[i].key = key THEN i
    ELSE KeyIndex(dict, key, i + 1)

HasKey(dict, key) == KeyIndex(dict, key, 1) # 0
Lookup(dict, key) == dict[KeyIndex(dict, key, 1)]

\* dict[key] = entry: an existing key keeps its position
DictPut(dict, entry) ==
    IF HasKey(dict, entry.key)
    THEN [dict EXCEPT ![KeyIndex(dict, entry.key, 1)] = entry]
    ELSE Append(dict, entry)

\* type_size: a type is carried as [size, elem] (elem: element size of an array)
type_size(typ) == typ.size

\* allocate_var: self.variables[name] = Variable(name, typ, offset, size)
allocate_var(g, name, typ) ==
    [g EXCEPT !.variables =
                 DictPut(@, [key |-> name, size |-> type_size(typ),
                             elem |-> typ.elem, offset |-> g.data_offset]),
              !.data_offset = @ + type_size(typ)]

\* get_string_label without the membership test: every call takes a new label
get_string_label_fresh(g, value) ==
    LET nl == new_label(g, "STR")
    IN  [g     |-> [nl.g EXCEPT !.string_literals =
                                   Append(@, [key |-> value, label |-> nl.label])],
         label |-> nl.label]

\* get_string_label: the label of value, a fresh STR label at its first use
get_string_label(g, value) ==
    IF ~HasKey(g.string_literals, value)
    THEN LET nl == new_label(g, "STR")
         IN  [g     |-> [nl.g EXCEPT !.string_literals =
                                        Append(@, [key |-> value, label |-> nl.label])],
              label |-> nl.label]
    ELSE [g |-> g, label |-> Lookup(g.string_literals, value).label]

mangle_name(name) == "v_" \o name

LowerCase == "abcdefghijklmnopqrstuvwxyz"
UpperCase == "ABCDEFGHIJKLMNOPQRSTUVWXYZ"

UpperChar(c) ==
    IF \E i \in 1..26 : SubSeq(LowerCase, i, i) = c
    THEN LET i == CHOOSE j \in 1..26 : SubSeq(LowerCase, j, j) = c
         IN  SubSeq(UpperCase, i, i)
    ELSE c

RECURSIVE Upper(_)
Upper(s) == IF Len(s) = 0 THEN ""
            ELSE UpperChar(SubSeq(s, 1, 1)) \o Upper(SubSeq(s, 2, Len(s)))

RegisterNames == {"A", "B", "C", "D", "E", "H", "L", "M", "SP", "PSW"}

mangle_sub_name(name) ==
    IF Upper(name) \in RegisterNames THEN "s_" \o name ELSE name

\* ------------------------------------------------------------------------
\* Expressions.  An expression is a record with a kind k:
\*   Num v | Str v | Nil | Id name | Bin op left right size | Un op operand
\*   Cmp op left right | Log op left right | Not operand
\*   Call target args rsize        (rsize 0: no resolved type)
\* ------------------------------------------------------------------------

Widen == <<OpR("MOV", "L,A"), OpN("MVI", "H", 0)>>

\* MVI A,value & 0xFF  or  LXI H,value & 0xFFFF
Immediate(value, target) ==
    IF target = "A" THEN OpN("MVI", "A", value % 256)
    ELSE OpN("LXI", "H", value % 65536)

\* the 1-byte operation of gen_binop, after POP PSW
binop8(g, op) ==
    CASE op = "+" -> emit(g, OpR("ADD", "B"))
      [] op = "-" -> emit(g, OpR("SUB", "B"))
      [] op = "&" -> emit(g, OpR("ANA", "B"))
      [] op = "|" -> emit(g, OpR("ORA", "B"))
      [] op = "^" -> emit(g, OpR("XRA", "B"))
      [] op = "*" -> emit(g, OpL("CALL", "", "_mul8"))
      [] op = "/" -> emit(g, OpL("CALL", "", "_div8"))
      [] op = "%" -> emit(g, OpL("CALL", "", "_mod8"))
      [] op = "<<" ->
            LET a == new_label(g, "SHL")
                b == new_label(a.g, "SHLE")
            IN  emits(b.g, <<LabelLine(a.label),
                             OpR("MOV", "C,A"), OpR("MOV", "A,B"), OpR("ORA", "A"),
                             OpL("JZ", "", b.label),
                             OpR("DCR", "B"), OpR("MOV", "A,C"), OpR("ADD", "A"),
                             OpL("JMP", "", a.label),
                             LabelLine(b.label)>>)
      [] op = ">>" ->
            LET a == new_label(g, "SHR")
                b == new_label(a.g, "SHRE")
            IN  emits(b.g, <<LabelLine(a.label),
                             OpR("MOV", "C,A"), OpR("MOV", "A,B"), OpR("ORA", "A"),
                             OpL("JZ", "", b.label),
                             OpR("DCR", "B"), OpR("MOV", "A,C"), OpR("ORA", "A"),
                             Op0("RAR"),
                             OpL("JMP", "", a.label),
                             LabelLine(b.label)>>)
      [] OTHER -> g

\* byte-by-byte 16-bit operation: MOV A,L; <lo> E; MOV L,A; MOV A,H; <hi> D; MOV H,A
Bytewise(lo, hi) ==
    <<OpR("MOV", "A,L"), OpR(lo, "E"), OpR("MOV", "L,A"),
      OpR("MOV", "A,H"), OpR(hi, "D"), OpR("MOV", "H,A")>>

\* the 2-byte operation of gen_binop, after POP H
binop16(g, op) ==
    CASE op = "+" -> emit(g, OpR("DAD", "D"))
      [] op = "-" -> emits(g, Bytewise("SUB", "SBB"))
      [] op = "&" -> emits(g, Bytewise("ANA", "ANA"))
      [] op = "|" -> emits(g, Bytewise("ORA", "ORA"))
      [] op = "^" -> emits(g, Bytewise("XRA", "XRA"))
      [] op = "*" -> emit(g, OpL("CALL", "", "_mul16"))
      [] op = "/" -> emit(g, OpL("CALL", "", "_div16"))
      [] op = "%" -> emit(g, OpL("CALL", "", "_mod16"))
      [] op = "<<" -> emit(g, OpL("CALL", "", "_shl16"))
      [] op = ">>" -> emit(g, OpL("CALL", "", "_shr16"))
      [] OTHER -> g

\* the jumps gen_comparison emits for op, before the FALSE label
comparison_jumps(op, true_label, false_label) ==
    CASE op = "==" -> <<OpL("JZ", "", true_label)>>
      [] op = "!=" -> <<OpL("JNZ", "", true_label)>>
      [] op = "<"  -> <<OpL("JC", "", true_label)>>
      [] op = ">=" -> <<OpL("JNC", "", true_label)>>
      [] op = ">"  -> <<OpL("JZ", "", false_label), OpL("JNC", "", true_label)>>
      [] op = "<=" -> <<OpL("JZ", "", true_label), OpL("JC", "", true_label)>>
      [] OTHER -> <<>>

\* the caller's cleanup of n pushed argument words (gen_call, after the CALL)
call_cleanup(g, n) ==
    IF n = 0 THEN g
    ELSE IF n * 2 = 2 THEN emit(g, OpR("POP", "D"))
    ELSE IF n * 2 = 4 THEN emits(g, <<OpR("POP", "D"), OpR("POP", "D")>>)
    ELSE emits(g, <<OpR("PUSH", "H"), OpN("LXI", "H", n * 2 + 2),
                    OpR("DAD", "SP"), Op0("SPHL"), OpR("POP", "H")>>)

\* the arguments walked first to last
index_order(n) == [i \in 1..n |-> i]

\* the order in which gen_call walks the arguments: reversed(expr.args)
arg_order(n) == [i \in 1..n |-> n + 1 - i]

RECURSIVE gen(_, _, _)
RECURSIVE gen_args(_, _, _, _)

\* gen_call's loop: for arg in reversed(expr.args): gen_expr(arg, 'HL'); PUSH H
gen_args(g, args, order, i) ==
    IF i > Len(order) THEN g
    ELSE Then(emit(gen(g, args[order[i]], "HL"), OpR("PUSH", "H")),
              LAMBDA g1 : gen_args(g1, args, order, i + 1))

\* the CALL of gen_call: direct to a known subroutine, else through _callhl
call_target(g, t) ==
    IF t.k = "Id"
    THEN IF HasKey(g.checker.subroutines, t.name)
         THEN emit(g, OpL("CALL", "", mangle_sub_name(t.name)))
         ELSE emit(emit(g, IF HasKey(g.variables, t.name)
                           THEN OpL("LHLD", "", mangle_name(t.name))
                           ELSE OpL("LXI", "H", t.name)),
                   OpL("CALL", "", "_callhl"))
    ELSE emit(gen(g, t, "HL"), OpL("CALL", "", "_callhl"))

gen_call(g, expr, target) ==
    LET g1 == gen_args(g, expr.args, arg_order(Len(expr.args)), 1)
        g2 == call_target(g1, expr.target)
        g3 == call_cleanup(g2, Len(expr.args))
    IN  IF target = "A" /\ expr.rsize > 1 THEN emit(g3, OpR("MOV", "A,L")) ELSE g3

gen_binop(g, expr, target) ==
    IF expr.size = 1
    THEN LET g1 == emit(gen(g, expr.left, "A"), OpR("PUSH", "PSW"))
             g2 == emits(gen(g1, expr.right, "A"),
                         <<OpR("MOV", "B,A"), OpR("POP", "PSW")>>)
             g3 == binop8(g2, expr.op)
         IN  IF target = "HL" THEN emits(g3, Widen) ELSE g3
    ELSE LET g1 == emit(gen(g, expr.left, "HL"), OpR("PUSH", "H"))
             g2 == emits(gen(g1, expr.right, "HL"),
                         <<Op0("XCHG"), OpR("POP", "H")>>)
             g3 == binop16(g2, expr.op)
         IN  IF target = "A" THEN emit(g3, OpR("MOV", "A,L")) ELSE g3

gen_comparison(g, expr) ==
    LET g1 == emit(gen(g, expr.left, "HL"), OpR("PUSH", "H"))
        g2 == emits(gen(g1, expr.right, "HL"),
                    <<Op0("XCHG"), OpR("POP", "H"),
                      OpR("MOV", "A,H"), OpR("CMP", "D"),
                      Ins("JNZ", "", 6, "$"),
                      OpR("MOV", "A,L"), OpR("CMP", "E")>>)
        t  == new_label(g2, "TRUE")
        e  == new_label(t.g, "END")
        f  == new_label(e.g, "FALSE")
    IN  emits(f.g, comparison_jumps(expr.op, t.label, f.label)
                   \o <<LabelLine(f.label), OpR("XRA", "A"),
                        OpL("JMP", "", e.label),
                        LabelLine(t.label), OpN("MVI", "A", 1),
                        LabelLine(e.label)>>)

\* the conditional jump gen_logical emits after each operand
logical_jump(op, label) ==
    IF op = "and" THEN OpL("JZ", "", label) ELSE OpL("JNZ", "", label)

\* the tail of gen_logical: the value when no operand decided, then the other
logical_tail(op, short_label, end_label) ==
    IF op = "and"
    THEN <<OpN("MVI", "A", 1), OpL("JMP", "", end_label),
           LabelLine(short_label), OpR("XRA", "A"), LabelLine(end_label)>>
    ELSE <<OpR("XRA", "A"), OpL("JMP", "", end_label),
           LabelLine(short_label), OpN("MVI", "A", 1), LabelLine(end_label)>>

gen_logical(g, expr) ==
    IF expr.op \in {"and", "or"}
    THEN LET s  == new_label(g, IF expr.op = "and" THEN "FALSE" ELSE "TRUE")
             e  == new_label(s.g, "END")
             g1 == emits(gen(e.g, expr.left, "A"),
                         <<OpR("ORA", "A"), logical_jump(expr.op, s.label)>>)
             g2 == emits(gen(g1, expr.right, "A"),
                         <<OpR("ORA", "A"), logical_jump(expr.op, s.label)>>)
         IN  emits(g2, logical_tail(expr.op, s.label, e.label))
    ELSE g

\* gen_expr for an identifier
gen_identifier(g, expr, target) ==
    IF HasKey(g.variables, expr.name)
    THEN IF Lookup(g.variables, expr.name).size = 1
         THEN LET g1 == emit(g, OpL("LDA", "", mangle_name(expr.name)))
              IN  IF target = "HL" THEN emits(g1, Widen) ELSE g1
         ELSE LET g1 == emit(g, OpL("LHLD", "", mangle_name(expr.name)))
              IN  IF target = "A" THEN emit(g1, OpR("MOV", "A,L")) ELSE g1
    ELSE IF HasKey(g.checker.constants, expr.name)
    THEN emit(g, Immediate(Lookup(g.checker.constants, expr.name).value, target))
    ELSE IF HasKey(g.checker.subroutines, expr.name)
    THEN emit(g, OpL("LXI", "H", mangle_sub_name(expr.name)))
    ELSE emit(g, OpL("LXI", "H", expr.name))

ComplementHL ==
    <<OpR("MOV", "A,L"), Op0("CMA"), OpR("MOV", "L,A"),
      OpR("MOV", "A,H"), Op0("CMA"), OpR("MOV", "H,A")>>

\* gen_expr for unary - and ~
gen_unary(g, expr, target) ==
    IF expr.op = "-"
    THEN emits(gen(g, expr.operand, target),
               IF target = "A" THEN <<Op0("CMA"), OpR("INR", "A")>>
               ELSE ComplementHL \o <<OpR("INX", "H")>>)
    ELSE IF expr.op = "~"
    THEN emits(gen(g, expr.operand, target),
               IF target = "A" THEN <<Op0("CMA")>> ELSE ComplementHL)
    ELSE g

\* the load of the element at the address in HL: one byte, or two
load_indirect(size, target) ==
    IF size = 1
    THEN <<OpR("MOV", "A,M")>> \o (IF target = "HL" THEN Widen ELSE <<>>)
    ELSE <<OpR("MOV", "E,M"), OpR("INX", "H"), OpR("MOV", "D,M"), Op0("XCHG")>>
         \o (IF target = "A" THEN <<OpR("MOV", "A,L")>> ELSE <<>>)

\* the base address of an array or record expression in HL
gen_base(g, e) ==
    IF e.k = "Id"
    THEN emit(g, OpL("LXI", "H", IF HasKey(g.variables, e.name)
                                 THEN mangle_name(e.name) ELSE e.name))
    ELSE gen(g, e, "HL")

\* gen_array_address without the multiplication by the element size
gen_array_address_unscaled(g, expr) ==
    LET g1 == gen(g, expr.index, "HL")
        g3 == gen_base(emit(g1, OpR("PUSH", "H")), expr.array)
    IN  emits(g3, <<OpR("POP", "D"), OpR("DAD", "D")>>)

\* gen_array_address: index (times the element size) plus the base, in HL
gen_array_address(g, expr) ==
    LET g1 == gen(g, expr.index, "HL")
        g2 == IF expr.elem_size > 1
              THEN emits(g1, <<OpN("LXI", "D", expr.elem_size), OpL("CALL", "", "_mul16")>>)
              ELSE g1
        g3 == gen_base(emit(g2, OpR("PUSH", "H")), expr.array)
    IN  emits(g3, <<OpR("POP", "D"), OpR("DAD", "D")>>)

gen_array_access(g, expr, target) ==
    emits(gen_array_address(g, expr), load_indirect(expr.size, target))

\* the offset of a field in the checker's record table, 0 when it is not there
field_offset(g, expr) ==
    IF expr.rec # "" /\ HasKey(g.checker.records, expr.rec)
    THEN LET fields == Lookup(g.checker.records, expr.rec).fields
         IN  IF HasKey(fields, expr.field) THEN Lookup(fields, expr.field).offset ELSE 0
    ELSE 0

\* gen_field_address: the record's address plus the field's offset, in HL
gen_field_address(g, expr) ==
    LET g1 == IF expr.via_ptr THEN gen(g, expr.record, "HL") ELSE gen_base(g, expr.record)
    IN  IF field_offset(g, expr) > 0
        THEN emits(g1, <<OpN("LXI", "D", field_offset(g, expr)), OpR("DAD", "D")>>)
        ELSE g1

gen_field_access(g, expr, target) ==
    emits(gen_field_address(g, expr), load_indirect(expr.size, target))

\* gen_expr for a dereference; the 2-byte load ends with XCHG for either target
gen_dereference(g, expr, target) ==
    emits(gen(g, expr.pointer, "HL"),
          IF expr.size = 1 THEN load_indirect(1, target)
          ELSE load_indirect(expr.size, "HL"))

\* gen_expr for &operand: identifier, field access or array access; any
\* other operand, and an identifier that is no variable, emits nothing
gen_address_of(g, expr) ==
    CASE expr.operand.k = "Id" ->
            IF HasKey(g.variables, expr.operand.name)
            THEN emit(g, OpL("LXI", "H", mangle_name(expr.operand.name)))
            ELSE g
      [] expr.operand.k = "Field" -> gen_field_address(g, expr.operand)
      [] expr.operand.k = "Index" -> gen_array_address(g, expr.operand)
      [] OTHER -> g

\* gen_expr for @next and @prev of a pointer to elements of tsize bytes
gen_step(g, expr) ==
    LET g1 == gen(g, expr.pointer, "HL")
    IN  IF ~expr.is_ptr THEN g1
        ELSE IF expr.tsize = 1
        THEN emit(g1, OpR(IF expr.k = "Next" THEN "INX" ELSE "DCX", "H"))
        ELSE emits(g1, <<OpN("LXI", "D", IF expr.k = "Next" THEN expr.tsize
                                           ELSE 0 - expr.tsize),
                         OpR("DAD", "D")>>)

gen_expr(g, expr, target) ==
    CASE expr.k = "Num" -> emit(g, Immediate(expr.v, target))
      [] expr.k = "Str" ->
            LET s == get_string_label(g, expr.v)
            IN  emit(s.g, OpL("LXI", "H", s.label))
      [] expr.k = "Nil" ->
            emit(g, IF target = "A" THEN OpR("XRA", "A") ELSE OpN("LXI", "H", 0))
      [] expr.k = "Id"  -> gen_identifier(g, expr, target)
      [] expr.k = "Bin" -> gen_binop(g, expr, target)
      [] expr.k = "Un"  -> gen_unary(g, expr, target)
      [] expr.k = "Cmp" ->
            LET g1 == gen_comparison(g, expr)
            IN  IF target = "HL" THEN emits(g1, Widen) ELSE g1
      [] expr.k = "Log" ->
            LET g1 == gen_logical(g, expr)
            IN  IF target = "HL" THEN emits(g1, Widen) ELSE g1
      [] expr.k = "Not" ->
            LET g1 == emits(gen(g, expr.operand, "A"),
                            <<OpR("ORA", "A"), OpN("MVI", "A", 0),
                              Ins("JNZ", "", 4, "$"), OpN("MVI", "A", 1)>>)
            IN  IF target = "HL" THEN emits(g1, Widen) ELSE g1
      [] expr.k = "Call" -> gen_call(g, expr, target)
      [] expr.k = "Cast"  -> gen(g, expr.expr, target)
      [] expr.k = "Index" -> gen_array_access(g, expr, target)
      [] expr.k = "Field" -> gen_field_access(g, expr, target)
      [] expr.k = "Deref" -> gen_dereference(g, expr, target)
      [] expr.k = "AddrOf" -> gen_address_of(g, expr)
      [] expr.k = "SizeOf" ->
            IF expr.is_array THEN emit(g, Immediate(expr.size, target)) ELSE g
      [] expr.k = "BytesOf" -> emit(g, Immediate(expr.size, target))
      [] expr.k \in {"Next", "Prev"} -> gen_step(g, expr)
      [] expr.k = "ArrayInit" -> g
      [] OTHER -> emit(g, Op0("TODO"))

\* ------------------------------------------------------------------------
\* Statements.  A statement is a record with a kind k:
\*   VarDecl name typ init | Decl | Assign target value | ExprStmt expr
\*   If condition then_body elseifs else_body | While condition body
\*   Loop body | Break | Continue | Return | Case expr whens else_body
\*   NestedSub sub | SubDecl sub
\* A subroutine declaration is [name, extern_name, params, returns, has_body,
\* body]; params and returns are sequences of [name, typ].
\* ------------------------------------------------------------------------

None == [k |-> "None"]

\* the store of HL to a variable's label at the variable's width
store_var(g, name) ==
    IF Lookup(g.variables, name).size = 1
    THEN emits(g, <<OpR("MOV", "A,L"), OpL("STA", "", mangle_name(name))>>)
    ELSE emit(g, OpL("SHLD", "", mangle_name(name)))

RECURSIVE gen_array_init_from(_, _, _, _, _)
gen_array_init_from(g, name, elem_size, elements, i) ==
    IF i > Len(elements) THEN g
    ELSE LET g1 == gen(g, elements[i], "HL")
             at == Ins(IF elem_size = 1 THEN "STA" ELSE "SHLD", "",
                       (i - 1) * elem_size, mangle_name(name))
             g2 == IF elem_size = 1
                   THEN emits(g1, <<OpR("MOV", "A,L"), at>>)
                   ELSE emit(g1, at)
         IN  Then(g2, LAMBDA g3 : gen_array_init_from(g3, name, elem_size, elements, i + 1))

gen_array_init(g, name, init) ==
    LET var == Lookup(g.variables, name)
    IN  gen_array_init_from(g, name, IF var.elem > 0 THEN var.elem ELSE 1,
                            init.elements, 1)

\* gen_var_decl: allocation and initialization happen only when the name is
\* not yet in self.variables
gen_var_decl(g, stmt) ==
    IF HasKey(g.variables, stmt.name) THEN g
    ELSE LET g1 == allocate_var(g, stmt.name, stmt.typ)
         IN  IF stmt.init.k = "None" THEN g1
             ELSE IF stmt.init.k = "ArrayInit"
             THEN gen_array_init(g1, stmt.name, stmt.init)
             ELSE IF stmt.init.k = "Str"
             THEN LET s == get_string_label(g1, stmt.init.v)
                  IN  emits(s.g, <<OpL("LXI", "H", s.label),
                                   OpL("SHLD", "", mangle_name(stmt.name))>>)
             ELSE store_var(gen(g1, stmt.init, "HL"), stmt.name)

\* the store of the value on the stack to the address in HL: DE = address,
\* HL = value, then one byte through STAX D or two through M
store_indirect(size) ==
    <<Op0("XCHG"), OpR("POP", "H")>>
    \o (IF size = 1 THEN <<OpR("MOV", "A,L"), OpR("STAX", "D")>>
        ELSE <<Op0("XCHG"), OpR("MOV", "M,E"), OpR("INX", "H"), OpR("MOV", "M,D")>>)

gen_assignment(g, stmt) ==
    LET g1 == gen(g, stmt.value, "HL")
        g2 == emit(g1, OpR("PUSH", "H"))
    IN  CASE stmt.target.k = "Id" ->
                IF HasKey(g1.variables, stmt.target.name)
                THEN store_var(g1, stmt.target.name)
                ELSE g1
          [] stmt.target.k = "Index" ->
                emits(gen_array_address(g2, stmt.target), store_indirect(stmt.target.size))
          [] stmt.target.k = "Field" ->
                emits(gen_field_address(g2, stmt.target), store_indirect(stmt.target.size))
          [] stmt.target.k = "Deref" ->
                emits(gen(g2, stmt.target.pointer, "HL"), store_indirect(stmt.target.size))
          [] OTHER -> g1

\* the store of HL to target i (from 0) of a multi-assignment, after a POP H
\* for every target but the first; only identifiers are stored to
multi_store(g, target, i) ==
    (IF i = 0 THEN <<>> ELSE <<OpR("POP", "H")>>)
    \o (IF target.k # "Id" THEN <<>>
        ELSE IF HasKey(g.variables, target.name)
                  /\ Lookup(g.variables, target.name).size = 1
        THEN <<OpR("MOV", "A,L"), OpL("STA", "", mangle_name(target.name))>>
        ELSE <<OpL("SHLD", "", mangle_name(target.name))>>)

RECURSIVE multi_stores(_, _, _)
multi_stores(g, targets, i) ==
    IF i > Len(targets) THEN <<>>
    ELSE multi_store(g, targets[i], i - 1) \o multi_stores(g, targets, i + 1)

\* gen_multi_assignment: the call, then one store per target
gen_multi_assignment(g, stmt) ==
    LET g1 == gen(g, stmt.value, "HL")
    IN  emits(g1, multi_stores(g1, stmt.targets, 1))

\* the Compare block of gen_case for one value
case_compare(next_when) ==
    <<OpR("MOV", "A,H"), OpR("CMP", "D"), OpL("JNZ", "", next_when),
      OpR("MOV", "A,L"), OpR("CMP", "E"), OpL("JNZ", "", next_when)>>

RECURSIVE gen_range(_, _, _, _)
RECURSIVE gen_stmts(_, _, _)
RECURSIVE gen_elseifs(_, _, _, _, _)
RECURSIVE gen_case_values(_, _, _, _)
RECURSIVE gen_whens(_, _, _, _)
RECURSIVE gen_sub(_, _)
RECURSIVE gen_subs(_, _, _)

\* for s in body: self.gen_stmt(s), over the statements lo..hi in their order;
\* the list is walked by halves
gen_range(g, stmts, lo, hi) ==
    IF lo > hi THEN g
    ELSE IF lo = hi THEN gen(g, stmts[lo], "")
    ELSE gen_range(gen_range(g, stmts, lo, (lo + hi) \div 2),
                   stmts, (lo + hi) \div 2 + 1, hi)

\* for s in body: self.gen_stmt(s)
gen_stmts(g, stmts, i) == gen_range(g, stmts, i, Len(stmts))

\* the elseif loop of gen_if; yields the generator and the pending else label
gen_elseifs(g, stmt, i, else_label, end_label) ==
    IF i > Len(stmt.elseifs) THEN [g |-> g, else_label |-> else_label]
    ELSE LET g1 == emit_label(g, else_label)
             fresh == i < Len(stmt.elseifs) \/ Len(stmt.else_body) > 0
             nl == new_label(g1, "ELIF")
             next_label == IF fresh THEN nl.label ELSE end_label
             g2 == IF fresh THEN nl.g ELSE g1
             g3 == emits(gen(g2, stmt.elseifs[i].cond, "A"),
                         <<OpR("ORA", "A"), OpL("JZ", "", next_label)>>)
             g4 == emit(gen_stmts(g3, stmt.elseifs[i].body, 1),
                        OpL("JMP", "", end_label))
         IN  Then(g4, LAMBDA g5 : gen_elseifs(g5, stmt, i + 1, next_label, end_label))

gen_if(g, stmt) ==
    LET el == new_label(g, "ELSE")
        en == new_label(el.g, "ENDIF")
        more == Len(stmt.elseifs) > 0 \/ Len(stmt.else_body) > 0
        g1 == emits(gen(en.g, stmt.condition, "A"),
                    <<OpR("ORA", "A"),
                      OpL("JZ", "", IF more THEN el.label ELSE en.label)>>)
        g2 == gen_stmts(g1, stmt.then_body, 1)
        g3 == IF more THEN emit(g2, OpL("JMP", "", en.label)) ELSE g2
        ei == gen_elseifs(g3, stmt, 1, el.label, en.label)
        g4 == IF Len(stmt.else_body) > 0
              THEN gen_stmts(emit_label(ei.g, ei.else_label), stmt.else_body, 1)
              ELSE ei.g
    IN  emit_label(g4, en.label)

\* break_labels.append / continue_labels.append
push_loop(g, loop_label, end_label) ==
    [g EXCEPT !.break_labels = Append(@, end_label),
              !.continue_labels = Append(@, loop_label)]

\* a pop that forgets the continue stack
pop_loop_break_only(g) ==
    [g EXCEPT !.break_labels = SubSeq(@, 1, Len(@) - 1)]

\* break_labels.pop() / continue_labels.pop()
pop_loop(g) ==
    [g EXCEPT !.break_labels = SubSeq(@, 1, Len(@) - 1),
              !.continue_labels = SubSeq(@, 1, Len(@) - 1)]

gen_while(g, stmt) ==
    LET lo == new_label(g, "WHILE")
        en == new_label(lo.g, "ENDW")
        g1 == emit_label(push_loop(en.g, lo.label, en.label), lo.label)
        g2 == emits(gen(g1, stmt.condition, "A"),
                    <<OpR("ORA", "A"), OpL("JZ", "", en.label)>>)
        g3 == gen_stmts(g2, stmt.body, 1)
    IN  pop_loop(emits(g3, <<OpL("JMP", "", lo.label), LabelLine(en.label)>>))

gen_loop(g, stmt) ==
    LET lo == new_label(g, "LOOP")
        en == new_label(lo.g, "ENDL")
        g1 == emit_label(push_loop(en.g, lo.label, en.label), lo.label)
        g2 == gen_stmts(g1, stmt.body, 1)
    IN  pop_loop(emits(g2, <<OpL("JMP", "", lo.label), LabelLine(en.label)>>))

\* the value loop of one when-arm of gen_case
gen_case_values(g, values, i, next_when) ==
    IF i > Len(values) THEN g
    ELSE LET g1 == emits(g, <<OpR("POP", "H"), OpR("PUSH", "H")>>)
             g2 == emits(gen(g1, values[i], "HL"),
                         <<Op0("XCHG"), OpR("POP", "H"), OpR("PUSH", "H")>>
                         \o case_compare(next_when))
         IN  Then(g2, LAMBDA g3 : gen_case_values(g3, values, i + 1, next_when))

\* the when loop of gen_case
gen_whens(g, whens, i, end_label) ==
    IF i > Len(whens) THEN g
    ELSE LET nw == new_label(g, "WHEN")
             g1 == gen_case_values(nw.g, whens[i].values, 1, nw.label)
             g2 == gen_stmts(emit(g1, OpR("POP", "H")), whens[i].body, 1)
             g3 == emits(g2, <<OpL("JMP", "", end_label), LabelLine(nw.label)>>)
         IN  Then(g3, LAMBDA g4 : gen_whens(g4, whens, i + 1, end_label))

gen_case(g, stmt) ==
    LET en == new_label(g, "ENDC")
        g1 == emit(gen(en.g, stmt.expr, "HL"), OpR("PUSH", "H"))
        g2 == emit(gen_whens(g1, stmt.whens, 1, en.label), OpR("POP", "H"))
        g3 == gen_stmts(g2, stmt.else_body, 1)
    IN  emit_label(g3, en.label)

gen_stmt(g, stmt) ==
    CASE stmt.k = "VarDecl"  -> gen_var_decl(g, stmt)
      [] stmt.k = "Decl"     -> g
      [] stmt.k = "Assign"   -> gen_assignment(g, stmt)
      [] stmt.k = "MultiAssign" -> gen_multi_assignment(g, stmt)
      [] stmt.k = "If"       -> gen_if(g, stmt)
      [] stmt.k = "While"    -> gen_while(g, stmt)
      [] stmt.k = "Loop"     -> gen_loop(g, stmt)
      [] stmt.k = "Break"    ->
            IF Len(g.break_labels) > 0
            THEN emit(g, OpL("JMP", "", g.break_labels[Len(g.break_labels)]))
            ELSE g
      [] stmt.k = "Continue" ->
            IF Len(g.continue_labels) > 0
            THEN emit(g, OpL("JMP", "", g.continue_labels[Len(g.continue_labels)]))
            ELSE g
      [] stmt.k = "Return"   -> emit(g, Op0("RET"))
      [] stmt.k = "Case"     -> gen_case(g, stmt)
      [] stmt.k = "ExprStmt" -> gen(g, stmt.expr, "HL")
      [] stmt.k = "NestedSub" -> [g EXCEPT !.nested_subs = Append(@, stmt.sub)]
      [] stmt.k = "SubDecl"  -> gen_sub(g, stmt.sub)
      [] OTHER -> g

\* self.gen_expr(node, target) / self.gen_stmt(node): the generator walks the
\* tree through these two entries, told apart here by the node's kind
ExprKinds == {"Num", "Str", "Nil", "Id", "Bin", "Un", "Cmp", "Log", "Not", "Call",
              "Cast", "Index", "Field", "Deref", "AddrOf", "SizeOf", "BytesOf",
              "Next", "Prev", "ArrayInit"}

\* The generator reaches a node with everything before it emitted: g is brought
\* to its value on entry, by the look at its counter.
gen(g, node, target) ==
    IF g.label_counter < 0 THEN g
    ELSE IF node.k \in ExprKinds THEN gen_expr(g, node, target) ELSE gen_stmt(g, node)

\* ------------------------------------------------------------------------
\* Subroutines
\* ------------------------------------------------------------------------

\* for name, typ in slots: self.allocate_var(name, typ)
RECURSIVE allocate_all(_, _, _)
allocate_all(g, slots, i) ==
    IF i > Len(slots) THEN g
    ELSE allocate_all(allocate_var(g, slots[i].name, slots[i].typ), slots, i + 1)

\* the copy of one parameter from the stack to its variable
copy_param(g, name, offset) ==
    LET g1 == emits(g, <<OpN("LXI", "H", offset), OpR("DAD", "SP")>>)
    IN  IF Lookup(g.variables, name).size = 1
        THEN emits(g1, <<OpR("MOV", "A,M"), OpL("STA", "", mangle_name(name))>>)
        ELSE emits(g1, <<OpR("MOV", "E,M"), OpR("INX", "H"), OpR("MOV", "D,M"),
                         Op0("XCHG"), OpL("SHLD", "", mangle_name(name))>>)

\* the first parameter's offset from SP: the return address lies below it
FirstParamOffset == 2

\* the prologue of gen_sub: parameter k is read at offset 2 + 2k from SP
RECURSIVE gen_prologue(_, _, _, _)
gen_prologue(g, params, i, offset) ==
    IF i > Len(params) THEN g
    ELSE IF HasKey(g.variables, params[i].name)
    THEN gen_prologue(copy_param(g, params[i].name, offset), params, i + 1, offset + 2)
    ELSE gen_prologue(g, params, i + 1, offset)

\* the epilogue of gen_sub: first return value to HL, then RET
gen_epilogue(g, returns) ==
    LET g1 == IF Len(returns) = 0 THEN g
              ELSE IF HasKey(g.variables, returns[1].name)
                      /\ Lookup(g.variables, returns[1].name).size = 1
              THEN emits(g, <<OpL("LDA", "", mangle_name(returns[1].name))>> \o Widen)
              ELSE emit(g, OpL("LHLD", "", mangle_name(returns[1].name)))
    IN  emit(g1, Op0("RET"))

\* the entry labels of gen_sub: the extern alias, if any, then the mangled name
sub_labels(g, decl) ==
    LET g1 == IF decl.extern_name # ""
              THEN emits(g, <<OpL("PUBLIC", "", decl.extern_name),
                              LabelLine(decl.extern_name)>>)
              ELSE g
    IN  emit_label(g1, mangle_sub_name(decl.name))

gen_subs(g, subs, i) ==
    IF i > Len(subs) THEN g
    ELSE Then(gen_sub(g, subs[i]), LAMBDA g1 : gen_subs(g1, subs, i + 1))

gen_sub(g, decl) ==
    IF ~decl.has_body THEN g
    ELSE LET known   == HasKey(g.checker.subroutines, decl.name)
             params  == IF known THEN Lookup(g.checker.subroutines, decl.name).params
                        ELSE decl.params
             returns == IF known THEN Lookup(g.checker.subroutines, decl.name).returns
                        ELSE decl.returns
             g1 == emits(g, <<Blank, OpL(";", "", "Subroutine " \o decl.name)>>)
             g2 == sub_labels(g1, decl)
             g3 == allocate_all(allocate_all(g2, params, 1), returns, 1)
             g4 == gen_prologue(g3, params, 1, FirstParamOffset)
             g5 == gen_stmts(g4, decl.body, 1)
             g6 == gen_epilogue(g5, returns)
         IN  IF Len(g6.nested_subs) > 0
             THEN gen_subs([g6 EXCEPT !.nested_subs = <<>>], g6.nested_subs, 1)
             ELSE g6

\* ------------------------------------------------------------------------
\* Program
\* ------------------------------------------------------------------------

\* CodeGenerator.__init__
NewGenerator(checker) ==
    [checker         |-> checker,
     output          |-> <<>>,
     variables       |-> <<>>,
     string_literals |-> <<>>,
     data_offset     |-> 0,
     label_counter   |-> 0,
     break_labels    |-> <<>>,
     continue_labels |-> <<>>,
     nested_subs     |-> <<>>]

program_header ==
    <<OpL(";", "", "Generated by ucow"), Blank,
      Op0(".8080"), Blank,
      Op0("CSEG"), Blank,
      OpL("JMP", "", "_main"), Blank,
      OpL("INCLUDE", "", "runtime.mac"), Blank>>

\* the pre-pass of gen_program over the top-level variable declarations
RECURSIVE allocate_globals(_, _, _)
allocate_globals(g, stmts, i) ==
    IF i > Len(stmts) THEN g
    ELSE IF stmts[i].k = "VarDecl" /\ HasKey(g.checker.globals, stmts[i].name)
    THEN allocate_globals(
            allocate_var(g, stmts[i].name, Lookup(g.checker.globals, stmts[i].name).typ),
            stmts, i + 1)
    ELSE allocate_globals(g, stmts, i + 1)

\* a main code that is left open: no JMP 0 closes it
gen_main_no_exit(g, stmts) ==
    gen_stmts(emits(g, <<Blank, OpL(";", "", "Main program"), LabelLine("_main")>>),
              stmts, 1)

\* "; Main program", _main:, the top-level statements, JMP 0
gen_main(g, stmts) ==
    LET g1 == emits(g, <<Blank, OpL(";", "", "Main program"), LabelLine("_main")>>)
        g2 == gen_stmts(g1, stmts, 1)
    IN  emits(g2, <<OpN("JMP", "", 0), Blank>>)

\* one line per variable: v_<name>: DS size
data_lines(vs) == [i \in 1..Len(vs) |-> Ins("DS", "", vs[i].size, mangle_name(vs[i].key))]

\* ','.join(str(ord(c)) for c in value), then ",0" (or "0" alone when empty);
\* a string value is carried as the sequence of its characters' ordinals
string_bytes(value) == IF Len(value) > 0 THEN value \o <<0>> ELSE <<0>>

\* one line per interned string: <label>: DB bytes
string_lines(sl) ==
    [i \in 1..Len(sl) |->
        [op |-> "DB", r |-> "", n |-> 0, l |-> sl[i].label,
         d |-> string_bytes(sl[i].key)]]

\* "; Data segment", _data:, the DS lines, the DB lines, END
gen_data(g) ==
    LET g1 == emits(g, <<OpL(";", "", "Data segment"), LabelLine("_data")>>)
        g2 == emits(g1, data_lines(g1.variables))
        g3 == emits(g2, string_lines(g2.string_literals))
    IN  emits(g3, <<Blank, Op0("END")>>)

\* gen_program; prog is [checker, declarations, statements]
gen_program(prog) ==
    LET g0 == emits(NewGenerator(prog.checker), program_header)
        g1 == allocate_globals(g0, prog.statements, 1)
        g2 == gen_subs(g1, prog.declarations, 1)
        g3 == gen_main(g2, prog.statements)
    IN  gen_data(g3)

\* ------------------------------------------------------------------------
\* The assembled image: byte addresses of the emitted lines
\* ------------------------------------------------------------------------

\* the code segment is linked at 0100H
Org == 256

\* size of the code that INCLUDE 'runtime.mac' brings in
RuntimeSize == 64

ThreeByteOps == {"LXI", "LDA", "STA", "LHLD", "SHLD", "JMP", "JZ", "JNZ", "JC",
                 "JNC", "CALL"}
TwoByteOps   == {"MVI"}
OneByteOps   == {"MOV", "ADD", "SUB", "SBB", "ANA", "ORA", "XRA", "CMP", "CMA",
                 "INR", "DCR", "INX", "DCX", "DAD", "RAR", "PUSH", "POP", "XCHG",
                 "SPHL", "RET", "STAX", "PCHL"}

IsInstr(line) == line.op \in ThreeByteOps \cup TwoByteOps \cup OneByteOps

\* bytes a line occupies in the image
LineLen(line) ==
    CASE line.op \in ThreeByteOps -> 3
      [] line.op \in TwoByteOps   -> 2
      [] line.op \in OneByteOps   -> 1
      [] line.op = "DS"           -> line.n
      [] line.op = "DB"           -> Len(line.d)
      [] line.op = "INCLUDE"      -> RuntimeSize
      [] OTHER -> 0

\* bytes that lines lo..hi occupy together, summed by halves
RECURSIVE BytesOfLines(_, _, _)
BytesOfLines(out, lo, hi) ==
    IF lo > hi THEN 0
    ELSE IF lo = hi THEN LineLen(out[lo])
    ELSE BytesOfLines(out, lo, (lo + hi) \div 2)
         + BytesOfLines(out, (lo + hi) \div 2 + 1, hi)

\* address of line i: the lines before it are laid out from Org on
LineAddr(out, i) == Org + BytesOfLines(out, 1, i - 1)

\* a line that defines label l:  "l:", "l: DS n", "l: DB ..."
Defines(line, l) == line.op \in {"LABEL", "DS", "DB"} /\ line.l = l

\* indices of the lines that define l
Definitions(out, l) == {i \in 1..Len(out) : Defines(out[i], l)}

\* the entry points of the runtime library
RuntimeSymbols == {"_mul8", "_div8", "_mod8", "_mul16", "_div16", "_mod16",
                   "_shl16", "_shr16", "_callhl"}

\* index of the line defining l, 0 when there is none
LabelIndex(out, l) ==
    IF Definitions(out, l) = {} THEN 0
    ELSE CHOOSE i \in Definitions(out, l) : \A j \in Definitions(out, l) : i <= j

\* index of the first line at or after i that occupies bytes, 0 when none
RECURSIVE NextCode(_, _)
NextCode(out, i) ==
    IF i > Len(out) THEN 0
    ELSE IF LineLen(out[i]) > 0 THEN i
    ELSE NextCode(out, i + 1)

\* index of the instruction that starts at address a, 0 when none does
IndexAtAddr(out, a) ==
    LET hits == {i \in 1..Len(out) : IsInstr(out[i]) /\ LineAddr(out, i) = a}
    IN  IF hits = {} THEN 0 ELSE CHOOSE i \in hits : TRUE

\* value of a label operand with its numeric offset: label+n, or $+n at line i
OperandAddr(out, line, i) ==
    IF line.l = "$" THEN (LineAddr(out, i) + line.n) % 65536
    ELSE (LineAddr(out, LabelIndex(out, line.l)) + line.n) % 65536

\* the labels the instructions refer to
Referenced(out) ==
    {out[i].l : i \in {j \in 1..Len(out) : IsInstr(out[j]) /\ out[j].l \notin {"", "$"}}}

\* the assembler accepts the text: no label defined twice, none undefined
\* the labels defined on more than one line
DuplicateLabels(out) ==
    {out[i].l : i \in {j \in 1..Len(out) :
                          /\ out[j].op \in {"LABEL", "DS", "DB"}
                          /\ Cardinality(Definitions(out, out[j].l)) > 1}}

\* the labels referred to and defined nowhere
UndefinedLabels(out) ==
    {l \in Referenced(out) : l \notin RuntimeSymbols /\ Definitions(out, l) = {}}

Assembles(out) == DuplicateLabels(out) \cup UndefinedLabels(out) = {}

\* ------------------------------------------------------------------------
\* The 8080 executing the image.  cpu.pc is the index of the line to execute;
\* addresses pushed, loaded and jumped to are byte addresses.
\* ------------------------------------------------------------------------

\* bitwise operation f on the low n bits of a and b
RECURSIVE Bitwise8(_, _, _, _)
Bitwise8(f, a, b, n) ==
    IF n = 0 THEN 0
    ELSE LET x == a % 2
             y == b % 2
             z == CASE f = "ANA" -> x * y
                    [] f = "ORA" -> IF x + y > 0 THEN 1 ELSE 0
                    [] OTHER     -> (x + y) % 2
         IN  z + 2 * Bitwise8(f, a \div 2, b \div 2, n - 1)

Result(c, m) == [cpu |-> c, mem |-> m]
Wild(c)      == [c EXCEPT !.status = "wild"]

HL(c) == c.H * 256 + c.L
DE(c) == c.D * 256 + c.E
SetHL(c, v) == [c EXCEPT !.H = (v \div 256) % 256, !.L = v % 256]
SetDE(c, v) == [c EXCEPT !.D = (v \div 256) % 256, !.E = v % 256]

Rd(m, a)   == IF a \in DOMAIN m THEN m[a] ELSE 0
Rd16(m, a) == Rd(m, a) + 256 * Rd(m, (a + 1) % 65536)

\* a store outside the data segment and the stack overwrites something else
Store8(c, m, a, v) ==
    IF a \in DOMAIN m THEN Result(c, [m EXCEPT ![a] = v]) ELSE Result(Wild(c), m)
Store16(c, m, a, v) ==
    IF a \in DOMAIN m /\ (a + 1) % 65536 \in DOMAIN m
    THEN Result(c, [m EXCEPT ![a] = v % 256, ![(a + 1) % 65536] = v \div 256])
    ELSE Result(Wild(c), m)

\* PSW low byte: S Z 0 AC 0 P 1 CY, with the flags the emitted code tests
FlagsByte(c) == c.Z * 64 + 2 + c.CY

PushWord(c, m, v) ==
    LET sp == (c.SP + 65534) % 65536
    IN  Store16([c EXCEPT !.SP = sp], m, sp, v)

\* control moves to line i; anything but an instruction there is a crash
Goto(out, c, i) ==
    IF i = 0 THEN Wild(c)
    ELSE IF ~IsInstr(out[i]) THEN Wild(c)
    ELSE [c EXCEPT !.pc = i]

\* control moves to byte address a
GotoAddr(out, c, a) == IF a = 0 THEN [c EXCEPT !.status = "exit"]
                       ELSE Goto(out, c, IndexAtAddr(out, a))

Fall(out, c) == Goto(out, c, NextCode(out, c.pc + 1))

\* the value of register operand r of an 8-bit instruction
Reg8(c, m, r) == IF r = "M" THEN Rd(m, HL(c)) ELSE c[r]

\* ADD, SUB, SBB, CMP, ANA, ORA, XRA with operand value v
Alu(c, op, v) ==
    CASE op = "ADD" -> [c EXCEPT !.A = (c.A + v) % 256,
                                 !.CY = IF c.A + v > 255 THEN 1 ELSE 0,
                                 !.Z = IF (c.A + v) % 256 = 0 THEN 1 ELSE 0]
      [] op = "SUB" -> [c EXCEPT !.A = (c.A + 256 - v) % 256,
                                 !.CY = IF c.A < v THEN 1 ELSE 0,
                                 !.Z = IF c.A = v THEN 1 ELSE 0]
      [] op = "SBB" -> [c EXCEPT !.A = (c.A + 512 - v - c.CY) % 256,
                                 !.CY = IF c.A < v + c.CY THEN 1 ELSE 0,
                                 !.Z = IF (c.A + 512 - v - c.CY) % 256 = 0 THEN 1 ELSE 0]
      [] op = "CMP" -> [c EXCEPT !.CY = IF c.A < v THEN 1 ELSE 0,
                                 !.Z = IF c.A = v THEN 1 ELSE 0]
      [] OTHER      -> [c EXCEPT !.A = Bitwise8(op, c.A, v, 8),
                                 !.CY = 0,
                                 !.Z = IF Bitwise8(op, c.A, v, 8) = 0 THEN 1 ELSE 0]

\* whether conditional jump op is taken
Taken(c, op) ==
    CASE op = "JMP" -> TRUE
      [] op = "JZ"  -> c.Z = 1
      [] op = "JNZ" -> c.Z = 0
      [] op = "JC"  -> c.CY = 1
      [] op = "JNC" -> c.CY = 0

\* JMP/Jcc: to a label, to $+n, or to an absolute address
Jump(out, c, line) ==
    IF ~Taken(c, line.op) THEN Fall(out, c)
    ELSE IF line.l = "" THEN GotoAddr(out, c, line.n)
    ELSE IF line.l = "$" THEN GotoAddr(out, c, OperandAddr(out, line, c.pc))
    ELSE Goto(out, c, NextCode(out, LabelIndex(out, line.l)))

\* CALL: the return address is pushed; _callhl continues at the address in HL
\* (its PCHL); _mul16 returns with HL * DE in HL; the other runtime routines
\* are outside the model
Call(out, c, m, line) ==
    LET ret == (LineAddr(out, c.pc) + 3) % 65536
        p   == PushWord(c, m, ret)
    IN  IF line.l = "_callhl" THEN Result(GotoAddr(out, p.cpu, HL(c)), p.mem)
        ELSE IF line.l = "_mul16"
        THEN Result(SetHL(Fall(out, c), (HL(c) * DE(c)) % 65536), m)
        ELSE IF line.l \in RuntimeSymbols THEN Result(Wild(c), m)
        ELSE Result(Goto(out, p.cpu, NextCode(out, LabelIndex(out, line.l))), p.mem)

\* one instruction
Exec(out, c, m) ==
    LET line == out[c.pc]
        op   == line.op
        r    == line.r
        next == Fall(out, c)
        imm  == IF line.l = "" THEN line.n % 65536 ELSE OperandAddr(out, line, c.pc)
    IN
    CASE op = "LXI" ->
            Result(IF r = "H" THEN SetHL(next, imm)
                   ELSE IF r = "D" THEN SetDE(next, imm)
                   ELSE Wild(c), m)
      [] op = "MVI" -> Result([next EXCEPT ![r] = line.n], m)
      [] op = "LDA" -> Result([next EXCEPT !.A = Rd(m, imm)], m)
      [] op = "STA" -> Store8(next, m, imm, c.A)
      [] op = "LHLD" -> Result(SetHL(next, Rd16(m, imm)), m)
      [] op = "SHLD" -> Store16(next, m, imm, HL(c))
      [] op = "STAX" -> Store8(next, m, DE(c), c.A)
      [] op = "MOV" ->
            LET dst == SubSeq(r, 1, 1)
                v   == Reg8(c, m, SubSeq(r, 3, 3))
            IN  IF dst = "M" THEN Store8(next, m, HL(c), v)
                ELSE Result([next EXCEPT ![dst] = v], m)
      [] op \in {"ADD", "SUB", "SBB", "CMP", "ANA", "ORA", "XRA"} ->
            Result(Alu(next, op, Reg8(c, m, r)), m)
      [] op = "CMA" -> Result([next EXCEPT !.A = 255 - c.A], m)
      [] op = "INR" -> Result([next EXCEPT ![r] = (c[r] + 1) % 256,
                                           !.Z = IF c[r] = 255 THEN 1 ELSE 0], m)
      [] op = "DCR" -> Result([next EXCEPT ![r] = (c[r] + 255) % 256,
                                           !.Z = IF c[r] = 1 THEN 1 ELSE 0], m)
      [] op = "INX" -> Result(SetHL(next, (HL(c) + 1) % 65536), m)
      [] op = "DCX" -> Result(SetHL(next, (HL(c) + 65535) % 65536), m)
      [] op = "DAD" ->
            LET v == IF r = "SP" THEN c.SP ELSE DE(c)
            IN  Result([SetHL(next, (HL(c) + v) % 65536)
                          EXCEPT !.CY = IF HL(c) + v > 65535 THEN 1 ELSE 0], m)
      [] op = "RAR" -> Result([next EXCEPT !.A = c.CY * 128 + c.A \div 2,
                                           !.CY = c.A % 2], m)
      [] op = "XCHG" -> Result(SetDE(SetHL(next, DE(c)), HL(c)), m)
      [] op = "SPHL" -> Result([next EXCEPT !.SP = HL(c)], m)
      [] op = "PUSH" ->
            PushWord(next, m, CASE r = "H" -> HL(c)
                                [] r = "D" -> DE(c)
                                [] OTHER   -> c.A * 256 + FlagsByte(c))
      [] op = "POP" ->
            LET v  == Rd16(m, c.SP)
                c1 == [next EXCEPT !.SP = (c.SP + 2) % 65536]
            IN  Result(CASE r = "H" -> SetHL(c1, v)
                         [] r = "D" -> SetDE(c1, v)
                         [] OTHER   -> [c1 EXCEPT !.A = v \div 256,
                                                  !.Z = (v \div 64) % 2,
                                                  !.CY = v % 2], m)
      [] op \in {"JMP", "JZ", "JNZ", "JC", "JNC"} -> Result(Jump(out, c, line), m)
      [] op = "CALL" -> Call(out, c, m, line)
      [] op = "RET" ->
            Result(GotoAddr(out, [c EXCEPT !.SP = (c.SP + 2) % 65536], Rd16(m, c.SP)), m)
      [] op = "PCHL" -> Result(GotoAddr(out, c, HL(c)), m)
      [] OTHER -> Result(Wild(c), m)

\* ------------------------------------------------------------------------
\* The machine the image is loaded into
\* ------------------------------------------------------------------------

\* the stack pointer the program is entered with
StackTop == 65280

\* bytes of stack below StackTop, and of the environment's stack above it
StackDepth == 16
StackSlack == 4

\* byte values that memory and registers may hold when the program is entered
Fills == {0, 165}

StackAddrs == (StackTop - StackDepth)..(StackTop + StackSlack - 1)

\* the addresses the DS and DB lines occupy
DataLines(out) == {i \in 1..Len(out) : out[i].op \in {"DS", "DB"}}
DataAddrs(out) ==
    UNION {LineAddr(out, i)..(LineAddr(out, i) + LineLen(out[i]) - 1) : i \in DataLines(out)}

\* the byte the image holds at data address a: a DB byte, or fill for DS
ImageByte(out, a, fill) ==
    LET i == CHOOSE j \in DataLines(out) :
                 LineAddr(out, j) <= a /\ a < LineAddr(out, j) + LineLen(out[j])
    IN  IF out[i].op = "DB" THEN out[i].d[a - LineAddr(out, i) + 1] ELSE fill

InitMem(out, fill) ==
    [a \in DataAddrs(out) \cup StackAddrs |->
        IF a \in StackAddrs THEN fill ELSE ImageByte(out, a, fill)]

InitCpu(out, fill) ==
    [pc |-> NextCode(out, 1), status |-> "run", SP |-> StackTop,
     A |-> fill, B |-> fill, C |-> fill, D |-> fill, E |-> fill, H |-> fill,
     L |-> fill, Z |-> 0, CY |-> 0]

NoCpu == [pc |-> 0, status |-> "off", SP |-> 0, A |-> 0, B |-> 0, C |-> 0,
          D |-> 0, E |-> 0, H |-> 0, L |-> 0, Z |-> 0, CY |-> 0]

\* ------------------------------------------------------------------------
\* Input programs
\* ------------------------------------------------------------------------

U8  == [size |-> 1, elem |-> 0]
U16 == [size |-> 2, elem |-> 0]
TypeOfSize(n) == [size |-> n, elem |-> 0]

Num(v)          == [k |-> "Num", v |-> v]
Str(v)          == [k |-> "Str", v |-> v]
Id(name)        == [k |-> "Id", name |-> name]
NilLit          == [k |-> "Nil"]
Un(op, e)       == [k |-> "Un", op |-> op, operand |-> e]
Cmp(op, l, r)   == [k |-> "Cmp", op |-> op, left |-> l, right |-> r]
Log(op, l, r)   == [k |-> "Log", op |-> op, left |-> l, right |-> r]
Not(e)          == [k |-> "Not", operand |-> e]
CallOf(t, args, rsize) == [k |-> "Call", target |-> t, args |-> args, rsize |-> rsize]

Bin(op, l, r, size) == [k |-> "Bin", op |-> op, left |-> l, right |-> r, size |-> size]

Cast(e)         == [k |-> "Cast", expr |-> e]
Index(array, index, elem_size, size) ==
    [k |-> "Index", array |-> array, index |-> index, elem_size |-> elem_size,
     size |-> size]
Field(record, field, rec, via_ptr, size) ==
    [k |-> "Field", record |-> record, field |-> field, rec |-> rec,
     via_ptr |-> via_ptr, size |-> size]
Deref(pointer, size) == [k |-> "Deref", pointer |-> pointer, size |-> size]
AddrOf(operand) == [k |-> "AddrOf", operand |-> operand]
SizeOf(is_array, size) == [k |-> "SizeOf", is_array |-> is_array, size |-> size]
BytesOf(size)   == [k |-> "BytesOf", size |-> size]
NextOf(pointer, is_ptr, tsize) ==
    [k |-> "Next", pointer |-> pointer, is_ptr |-> is_ptr, tsize |-> tsize]
PrevOf(pointer, is_ptr, tsize) ==
    [k |-> "Prev", pointer |-> pointer, is_ptr |-> is_ptr, tsize |-> tsize]

ArrayLit(elements) == [k |-> "ArrayInit", elements |-> elements]
ExprStmt(e)     == [k |-> "ExprStmt", expr |-> e]
NestedSub(sub)  == [k |-> "NestedSub", sub |-> sub]
If(c, then_body, elseifs, else_body) ==
    [k |-> "If", condition |-> c, then_body |-> then_body, elseifs |-> elseifs,
     else_body |-> else_body]
ElseIf(c, body) == [cond |-> c, body |-> body]
While(c, body)  == [k |-> "While", condition |-> c, body |-> body]
Loop(body)      == [k |-> "Loop", body |-> body]
Break           == [k |-> "Break"]
Continue        == [k |-> "Continue"]
Return          == [k |-> "Return"]
When(values, body) == [values |-> values, body |-> body]
Case(e, whens, else_body) ==
    [k |-> "Case", expr |-> e, whens |-> whens, else_body |-> else_body]
Assign(t, v)    == [k |-> "Assign", target |-> t, value |-> v]
MultiAssign(targets, v) == [k |-> "MultiAssign", targets |-> targets, value |-> v]
VarDecl(name, typ, init) == [k |-> "VarDecl", name |-> name, typ |-> typ, init |-> init]
Slot(name, typ) == [name |-> name, typ |-> typ]
SubDecl(name, extern_name, params, returns, has_body, body) ==
    [name |-> name, extern_name |-> extern_name, params |-> params,
     returns |-> returns, has_body |-> has_body, body |-> body]

\* the tables the type checker hands over: the declared subroutines with
\* their signatures, the constants, the top-level variables with their types
RECURSIVE SubTable(_, _)
SubTable(decls, i) ==
    IF i > Len(decls) THEN <<>>
    ELSE DictPut(SubTable(decls, i + 1),
                 [key |-> decls[i].name, params |-> decls[i].params,
                  returns |-> decls[i].returns])

RECURSIVE GlobalTable(_, _)
GlobalTable(stmts, i) ==
    IF i > Len(stmts) THEN <<>>
    ELSE IF stmts[i].k = "VarDecl"
    THEN DictPut(GlobalTable(stmts, i + 1), [key |-> stmts[i].name, typ |-> stmts[i].typ])
    ELSE GlobalTable(stmts, i + 1)

Checker(decls, stmts) ==
    [subroutines |-> SubTable(decls, 1), constants |-> <<>>, records |-> <<>>,
     globals |-> GlobalTable(stmts, 1)]

Program(meta, decls, stmts) ==
    [meta |-> meta, checker |-> Checker(decls, stmts),
     declarations |-> decls, statements |-> stmts]

\* --- call sites --------------------------------------------------------

\* most arguments of a call
MaxArgs == 3

\* argument k (from 0) is a literal with distinct, non-zero bytes
ArgValue(k) == 4660 + 4369 * k

\* the value the callee assigns to its return
RetValue == 171 * 256 + 205

ParamName(k) == "p" \o ToString(k)

\* all sequences of n parameter sizes
RECURSIVE SizeSeqs(_)
SizeSeqs(n) ==
    IF n = 0 THEN {<<>>}
    ELSE {Append(s, z) : s \in SizeSeqs(n - 1), z \in {1, 2}}

Callee(sizes, ret) ==
    SubDecl("f", "",
            [i \in 1..Len(sizes) |-> Slot(ParamName(i - 1), TypeOfSize(sizes[i]))],
            IF ret = 0 THEN <<>> ELSE <<Slot("r", TypeOfSize(ret))>>,
            TRUE,
            IF ret = 0 THEN <<>> ELSE <<Assign(Id("r"), Num(RetValue))>>)

\* another subroutine whose parameter has the name of the callee's first
\* parameter and the other width
Namesake(sizes) ==
    SubDecl("h", "", <<Slot(ParamName(0), TypeOfSize(3 - sizes[1]))>>, <<>>, TRUE, <<>>)

CallArgs(n) == [i \in 1..n |-> Num(ArgValue(i - 1))]

\* f(args) in the main code: direct, or through an interface variable fp
CallProgram(sizes, mode, namesake, ret) ==
    Program([family |-> "call", sizes |-> sizes, mode |-> mode,
             namesake |-> namesake, ret |-> ret],
            CASE Len(sizes) = 0      -> <<Callee(sizes, ret)>>
              [] namesake = "before" -> <<Namesake(sizes), Callee(sizes, ret)>>
              [] namesake = "after"  -> <<Callee(sizes, ret), Namesake(sizes)>>
              [] OTHER               -> <<Callee(sizes, ret)>>,
            IF mode = "direct"
            THEN <<ExprStmt(CallOf(Id("f"), CallArgs(Len(sizes)), ret))>>
            ELSE <<VarDecl("fp", U16, None),
                   Assign(Id("fp"), Id("f")),
                   ExprStmt(CallOf(Id("fp"), CallArgs(Len(sizes)), ret))>>)

CallPrograms ==
    {CallProgram(sizes, mode, IF Len(sizes) = 0 THEN "none" ELSE namesake, ret) :
        sizes \in UNION {SizeSeqs(n) : n \in 0..MaxArgs},
        mode \in {"direct", "indirect"},
        namesake \in {"none", "before", "after"},
        ret \in {0, 1, 2}}

\* --- declarations -------------------------------------------------------

\* a subroutine takes nothing, or one parameter, or declares one local
SubSlots ==
    {[params |-> <<>>, body |-> <<>>],
     [params |-> <<Slot("a", U8)>>, body |-> <<>>],
     [params |-> <<Slot("a", U16)>>, body |-> <<>>],
     [params |-> <<Slot("x", U8)>>, body |-> <<>>],
     [params |-> <<>>, body |-> <<VarDecl("x", U8, None)>>]}

SubReturns == {<<>>, <<Slot("r", U8)>>, <<Slot("r", U16)>>}

\* the subroutines called name: with or without an @extern alias, which may
\* be the subroutine's own name
SubShapes(name) ==
    {SubDecl(name, extern, slots.params, returns, TRUE, slots.body) :
        extern \in {"", name}, slots \in SubSlots, returns \in SubReturns}

DeclSubs ==
    {<<>>} \cup {<<f>> : f \in SubShapes("f")}
           \cup {<<f, h>> : f \in SubShapes("f"), h \in SubShapes("h")}

\* top-level variables x and y
DeclGlobals ==
    {<<>>} \cup {<<VarDecl("x", t, None)>> : t \in {U8, U16}}
           \cup {<<VarDecl("x", t, None), VarDecl("y", u, None)>> : t, u \in {U8, U16}}

DeclPrograms ==
    {Program([family |-> "decl"], subs, globals) :
        subs \in DeclSubs, globals \in DeclGlobals}

\* --- control flow -------------------------------------------------------

\* a and b are top-level uint8 variables
FlowGlobals == <<VarDecl("a", U8, None), VarDecl("b", U8, None)>>

Comparisons == {Cmp(op, Id("a"), Id("b")) : op \in {"==", "!=", "<", ">=", ">", "<="}}

FlowConds ==
    {Id("a"), Not(Id("a")), Cmp("<", Id("a"), Num(2))}
    \cup {Log(op, Id("a"), Id("b")) : op \in {"and", "or"}}
    \cup {Log(op, Cmp("==", Id("a"), Num(1)), Cmp("!=", Id("b"), Num(2))) :
              op \in {"and", "or"}}

FlowLeaves ==
    {Assign(Id("a"), Num(1)), Break, Continue}
    \cup {Assign(Id("a"), Bin(op, Id("a"), Id("b"), 1)) : op \in {"<<", ">>"}}
    \cup {Assign(Id("a"), c) : c \in Comparisons}

\* the bodies of the outer statements: a leaf, or one nested statement
FlowBodies ==
    {<<s>> : s \in {Assign(Id("a"), Num(1)), Break, Continue}}
    \cup {<<If(Id("a"), <<Break>>, <<>>, <<>>)>>,
          <<If(Id("a"), <<Continue>>, <<>>, <<Assign(Id("b"), Num(2))>>)>>,
          <<While(Id("b"), <<Break>>)>>,
          <<Loop(<<Break>>)>>}

FlowIfs ==
    {If(c, <<Assign(Id("a"), Num(1))>>, elseifs, else_body) :
        c \in FlowConds,
        elseifs \in {<<>>, <<ElseIf(Id("b"), <<Break>>)>>,
                     <<ElseIf(Id("b"), <<>>),
                       ElseIf(Cmp("==", Id("a"), Id("b")), <<Continue>>)>>},
        else_body \in {<<>>, <<Assign(Id("b"), Num(2))>>}}
    \cup {If(Id("a"), body, <<>>, else_body) :
              body \in FlowBodies, else_body \in {<<>>} \cup FlowBodies}

FlowLoops ==
    {While(c, body) : c \in FlowConds, body \in FlowBodies}
    \cup {Loop(body) : body \in FlowBodies}

FlowCases ==
    {Case(Id("a"), whens, else_body) :
        whens \in {<<>>,
                   <<When(<<Num(1)>>, <<Break>>)>>,
                   <<When(<<Num(1), Num(2)>>, <<Assign(Id("b"), Num(2))>>)>>,
                   <<When(<<Num(1)>>, <<>>), When(<<Num(2), Num(3)>>, <<Continue>>)>>},
        else_body \in {<<>>} \cup FlowBodies}

FlowStmts == FlowLeaves \cup FlowIfs \cup FlowLoops \cup FlowCases

\* the if / elseif / else chains on the plain condition a
FlowChains == {s \in FlowIfs : s.condition = Id("a") /\ s.then_body = <<Assign(Id("a"), Num(1))>>}

\* a main code of one statement, or of a chain and another statement, or a
\* subroutine of one statement and a main code with a chain
FlowPrograms ==
    {Program([family |-> "flow"], <<>>, FlowGlobals \o <<s>>) : s \in FlowStmts}
    \cup {Program([family |-> "flow"], <<>>, FlowGlobals \o <<s, t>>) :
              s \in FlowChains, t \in FlowLoops \cup FlowCases}
    \cup {Program([family |-> "flow"],
                  <<SubDecl("f", "", <<>>, <<>>, TRUE, <<s>>)>>,
                  FlowGlobals \o <<t>>) :
              s \in FlowCases, t \in FlowChains}

\* ------------------------------------------------------------------------
\* The state machine: a program is generated, loaded and run
\* ------------------------------------------------------------------------

InitWith(programs) ==
    /\ program \in programs
    /\ phase = "parsed"
    /\ output = <<>>
    /\ variables = <<>>
    /\ string_literals = <<>>
    /\ label_counter = 0
    /\ break_labels = <<>>
    /\ continue_labels = <<>>
    /\ nested_subs = <<>>
    /\ cpu = NoCpu
    /\ mem = <<>>

\* generate(program, checker): gen_program on a fresh CodeGenerator
GenProgram ==
    /\ phase = "parsed"
    /\ \E g \in {gen_program(program)} :
           /\ output' = g.output
           /\ variables' = g.variables
           /\ string_literals' = g.string_literals
           /\ label_counter' = g.label_counter
           /\ break_labels' = g.break_labels
           /\ continue_labels' = g.continue_labels
           /\ nested_subs' = g.nested_subs
    /\ phase' = "emitted"
    /\ UNCHANGED <<program, cpu, mem>>

\* the assembled text is loaded and entered at its first instruction
Boot ==
    /\ phase = "emitted"
    /\ Assembles(output)
    /\ \E fill \in Fills :
          /\ cpu' = InitCpu(output, fill)
          /\ mem' = InitMem(output, fill)
    /\ phase' = "running"
    /\ UNCHANGED <<program, output, variables, string_literals, label_counter,
                   break_labels, continue_labels, nested_subs>>

\* the 8080 executes one instruction
Step ==
    /\ phase = "running"
    /\ cpu.status = "run"
    /\ \E res \in {Exec(output, cpu, mem)} :
           /\ cpu' = res.cpu
           /\ mem' = res.mem
    /\ UNCHANGED <<program, phase, output, variables, string_literals,
                   label_counter, break_labels, continue_labels, nested_subs>>

Next == GenProgram \/ Boot \/ Step

CallInit == InitWith(CallPrograms)
SpecCall == CallInit /\ [][Next]_vars

FlowInit == InitWith(FlowPrograms)
SpecFlow == FlowInit /\ [][Next]_vars

DeclInit == InitWith(DeclPrograms)
SpecDecl == DeclInit /\ [][Next]_vars

\* ------------------------------------------------------------------------
\* Calls: stack balance, argument order, parameter passing (SpecCall)
\* ------------------------------------------------------------------------

Running == phase = "running" /\ cpu.status = "run"

\* number of arguments of the call in the main code
NArgs == Len(program.meta.sizes)

\* the main code follows the subroutines
InMain(i) == i > LabelIndex(output, "_main")

AtMainCall == Running /\ InMain(cpu.pc) /\ output[cpu.pc].op = "CALL"

\* the main code has come to its closing JMP 0, past the call's cleanup
AfterCleanup == Running /\ InMain(cpu.pc) /\ output[cpu.pc] = OpN("JMP", "", 0)

\* C1: at the CALL of a call with n arguments exactly 2n bytes have been
\* pushed, and once the caller's cleanup is done the stack pointer is back at
\* its value before the first argument was pushed
C1_StackBalanced ==
    /\ AtMainCall => cpu.SP = StackTop - 2 * NArgs
    /\ AfterCleanup => cpu.SP = StackTop

\* the line that evaluates argument k (from 0): LXI H,<its value>
ArgLine(k) == CHOOSE i \in 1..Len(output) : output[i] = OpN("LXI", "H", ArgValue(k))

\* C2 as stated: the code evaluating the arguments is emitted in index order
\* args[0], args[1], ..., args[n-1]
C2_IndexOrder ==
    phase # "parsed" =>
        \A i, j \in 0..(NArgs - 1) : i < j => ArgLine(i) < ArgLine(j)

\* C2 amended: the code evaluating the arguments is emitted in reverse index
\* order args[n-1], ..., args[0], each argument's code immediately followed
\* by its PUSH H, and the last PUSH H (of args[0]) by the call itself
C2_ReverseOrder ==
    phase # "parsed" =>
        /\ \A k \in 0..(NArgs - 1) : output[ArgLine(k) + 1] = OpR("PUSH", "H")
        /\ \A k \in 0..(NArgs - 2) : ArgLine(k) = ArgLine(k + 1) + 2
        /\ NArgs > 0 => output[ArgLine(0) + 2].op \in {"CALL", "LHLD"}

\* the run is about to evaluate args[0] with every later argument pushed
C2_Witness ==
    /\ Running
    /\ NArgs = MaxArgs
    /\ cpu.pc = ArgLine(0)
    /\ cpu.SP = StackTop - 2 * (NArgs - 1)
    /\ \A k \in 1..(NArgs - 1) : Rd16(mem, StackTop - 2 * (NArgs - k)) = ArgValue(k)

\* first instruction of the callee f, and the first one after its prologue
CalleeEntry == NextCode(output, LabelIndex(output, mangle_sub_name("f")))

RECURSIVE PrologueLines(_, _)
PrologueLines(sizes, i) ==
    IF i > Len(sizes) THEN 0
    ELSE (IF sizes[i] = 1 THEN 4 ELSE 7) + PrologueLines(sizes, i + 1)

AtCalleeEntry == Running /\ cpu.pc = CalleeEntry

AfterPrologue ==
    Running /\ cpu.pc = CalleeEntry + PrologueLines(program.meta.sizes, 1)

\* address of the data-segment slot of variable name
SlotAddr(name) == LineAddr(output, LabelIndex(output, mangle_name(name)))

\* the slot of parameter k holds argument k at the parameter's width
ParamHolds(k) ==
    IF program.meta.sizes[k + 1] = 1
    THEN Rd(mem, SlotAddr(ParamName(k))) = ArgValue(k) % 256
    ELSE Rd16(mem, SlotAddr(ParamName(k))) = ArgValue(k)

\* C3: on entry to the callee argument k lies at SP + 2 + 2k, and after the
\* prologue the slot of parameter k holds argument k truncated to the
\* parameter's width
C3_ParamsPassed ==
    /\ AtCalleeEntry =>
          \A k \in 0..(NArgs - 1) : Rd16(mem, cpu.SP + 2 + 2 * k) = ArgValue(k)
    /\ AfterPrologue => \A k \in 0..(NArgs - 1) : ParamHolds(k)

\* ------------------------------------------------------------------------
\* Labels, data slots and the shape of the output (SpecDecl)
\* ------------------------------------------------------------------------

Emitted == phase # "parsed"

\* C4: no label name is defined on two lines of the output
C4_LabelsUnique ==
    Emitted =>
        \A i, j \in 1..Len(output) :
            (output[i].op \in {"LABEL", "DS", "DB"} /\ Defines(output[j], output[i].l))
                => i = j

DsLines == {j \in 1..Len(output) : output[j].op = "DS"}

\* the top-level variable declarations of the program
GlobalDecls == {i \in 1..Len(program.statements) : program.statements[i].k = "VarDecl"}

\* C6: for every top-level variable v of size s the data segment contains
\* exactly one line v_<v>: DS s
C6_GlobalSlots ==
    Emitted =>
        \A i \in GlobalDecls :
            LET v == program.statements[i]
                slots == {j \in DsLines : output[j].l = mangle_name(v.name)}
            IN  /\ Cardinality(slots) = 1
                /\ \A j \in slots : output[j].n = type_size(v.typ)

\* every declaration that gets a data-segment slot: the top-level variables,
\* the parameters and the returns of every subroutine
SlotDecls ==
    {[of |-> "", kind |-> "var", name |-> program.statements[i].name,
      size |-> type_size(program.statements[i].typ)] : i \in GlobalDecls}
    \cup UNION {
        {[of |-> d.name, kind |-> "param", name |-> d.params[k].name,
          size |-> type_size(d.params[k].typ)] : k \in 1..Len(d.params)}
        \cup
        {[of |-> d.name, kind |-> "return", name |-> d.returns[k].name,
          size |-> type_size(d.returns[k].typ)] : k \in 1..Len(d.returns)}
        : d \in {program.declarations[i] : i \in 1..Len(program.declarations)}}

\* the label under which the generated code reads and writes a declaration
SlotLabel(d) == mangle_name(d.name)

\* C7: two distinct parameter, return or global declarations never share a
\* data-segment label, and each has a DS line of the size of its own type
C7_OwnSlots ==
    Emitted =>
        /\ \A d, e \in SlotDecls : d # e => SlotLabel(d) # SlotLabel(e)
        /\ \A d \in SlotDecls :
              \E j \in DsLines : output[j] = Ins("DS", "", d.size, SlotLabel(d))

InstrLines == {i \in 1..Len(output) : IsInstr(output[i])}

EmptyProgram == program.declarations = <<>> /\ program.statements = <<>>

\* C9: JMP _main is the first instruction, _main: is defined exactly once,
\* the last instruction before _data: is JMP 0, END appears exactly once and
\* is the final line; the empty program has no DS or DB line and nothing
\* between _main: and JMP 0
C9_Skeleton ==
    Emitted =>
        LET main == LabelIndex(output, "_main")
            data == LabelIndex(output, "_data")
            code == {i \in InstrLines : i < data}
        IN  /\ \E i \in InstrLines :
                  /\ \A j \in InstrLines : i <= j
                  /\ output[i] = OpL("JMP", "", "_main")
            /\ Cardinality(Definitions(output, "_main")) = 1
            /\ Cardinality(Definitions(output, "_data")) = 1
            /\ \E i \in code :
                  /\ \A j \in code : j <= i
                  /\ i > main
                  /\ output[i] = OpN("JMP", "", 0)
            /\ {i \in 1..Len(output) : output[i] = Op0("END")} = {Len(output)}
            /\ EmptyProgram =>
                  /\ DataLines(output) = {}
                  /\ output[main + 1] = OpN("JMP", "", 0)

\* the empty program has been generated and has run to its JMP 0
C9_Witness ==
    /\ EmptyProgram
    /\ phase = "running"
    /\ cpu.status = "exit"
    /\ output[cpu.pc] = OpN("JMP", "", 0)

\* ------------------------------------------------------------------------
\* Generated labels (SpecFlow)
\* ------------------------------------------------------------------------

\* the prefixes the generator passes to new_label
GenPrefixes == {"L", "STR", "ELSE", "ENDIF", "WHILE", "ENDW", "LOOP", "ENDL", "WHEN",
                "ENDC", "TRUE", "FALSE", "END", "SHL", "SHLE", "SHR", "SHRE", "ELIF"}

HasPrefix(l, p) == Len(l) >= Len(p) /\ SubSeq(l, 1, Len(p)) = p

Generated(l) == \E p \in GenPrefixes : HasPrefix(l, p)

TransferOps == {"JMP", "JZ", "JNZ", "JC", "JNC", "CALL"}

MaxStrings == 3

\* the literals "", "h" and "hi" as sequences of ordinals
StrValues == {<<>>, <<104>>, <<104, 105>>}

\* the literals of the main code, in textual order
StrUses == UNION {[1..n -> StrValues] : n \in 1..MaxStrings}

\* no subroutine, or a subroutine f whose local q is initialized with a literal
StrLocals == {<<>>} \cup {<<v>> : v \in StrValues}

\* var p: [uint8]; p := uses[1]; p := uses[2]; ...  The subroutines are
\* generated before the main code, so f's literal is interned first.
StrProgram(local, uses) ==
    Program([family |-> "str", uses |-> local \o uses],
            IF local = <<>> THEN <<>>
            ELSE <<SubDecl("f", "", <<>>, <<>>, TRUE,
                           <<VarDecl("q", U16, Str(local[1]))>>)>>,
            <<VarDecl("p", U16, None)>>
                \o [i \in 1..Len(uses) |-> Assign(Id("p"), Str(uses[i]))])

StrPrograms == {StrProgram(local, uses) : local \in StrLocals, uses \in StrUses}

StrInit == InitWith(StrPrograms)
SpecStrings == StrInit /\ [][Next]_vars

\* the lines that load the address of a string literal
StrRefLines == {i \in 1..Len(output) : output[i].op = "LXI" /\ HasPrefix(output[i].l, "STR")}

\* the k-th of them
StrRef(k) == CHOOSE i \in StrRefLines : Cardinality({j \in StrRefLines : j < i}) = k - 1

\* the label get_string_label returned at its k-th call
StrLabel(k) == output[StrRef(k)].l

DbLines == {j \in 1..Len(output) : output[j].op = "DB"}

\* C8: the k-th call of get_string_label returns the same label as the j-th
\* exactly when the two values are equal, and the output has one DB line per
\* distinct value, labelled with the value's label and holding the value's
\* bytes followed by 0 (a single 0 for the empty string)
C8_Interned ==
    Emitted =>
        LET uses == program.meta.uses
        IN  /\ Cardinality(StrRefLines) = Len(uses)
            /\ \A i, j \in 1..Len(uses) :
                  (uses[i] = uses[j]) <=> (StrLabel(i) = StrLabel(j))
            /\ \A i \in 1..Len(uses) :
                  Cardinality({j \in DbLines : output[j].l = StrLabel(i)}) = 1
            /\ \A i \in 1..Len(uses) : \A j \in DbLines :
                  output[j].l = StrLabel(i) => output[j].d = uses[i] \o <<0>>
            /\ Cardinality(DbLines) = Cardinality({uses[i] : i \in 1..Len(uses)})
            /\ \A j \in DbLines : \E i \in 1..Len(uses) : output[j].l = StrLabel(i)

\* f interned "", the main code interned "hi", "h" and "hi" again; the main
\* code has ended and p points to the bytes 104, 105, 0
C8_Witness ==
    /\ phase = "running" /\ cpu.status = "exit"
    /\ program.meta.family = "str"
    /\ program.meta.uses = <<<<>>, <<104, 105>>, <<104>>, <<104, 105>>>>
    /\ StrLabel(2) = StrLabel(4) /\ StrLabel(3) # StrLabel(2)
    /\ LET a == Rd16(mem, SlotAddr("p"))
       IN  <<Rd(mem, a), Rd(mem, a + 1), Rd(mem, a + 2)>> = <<104, 105, 0>>

\* ------------------------------------------------------------------------
\* Short-circuit and / or (SpecLogic)
\* ------------------------------------------------------------------------

\* the bytes the operands' variables are set to
LogicValues == {0, 1, 2}

LogicOps == {"and", "or"}

\* left operands over a (and b), right operands over b (and a)
LogicLeft ==
    {Id("a"), Not(Id("a")), Cmp("==", Id("a"), Num(1))}
    \cup {Log(op, Id("a"), Id("b")) : op \in LogicOps}
LogicRight ==
    {Id("b"), Not(Id("b"))} \cup {Log(op, Id("b"), Id("a")) : op \in LogicOps}

\* var a: uint8; var b: uint8; var r: uint8; a := x; b := y; r := left op right;
LogicProgram(op, left, right, x, y) ==
    Program([family |-> "logic", x |-> x, y |-> y], <<>>,
            <<VarDecl("a", U8, None), VarDecl("b", U8, None), VarDecl("r", U8, None),
              Assign(Id("a"), Num(x)), Assign(Id("b"), Num(y)),
              Assign(Id("r"), Log(op, left, right))>>)

LogicPrograms ==
    {LogicProgram(op, left, right, x, y) :
        op \in LogicOps, left \in LogicLeft, right \in LogicRight,
        x \in LogicValues, y \in LogicValues}

LogicInit == InitWith(LogicPrograms)
SpecLogic == LogicInit /\ [][Next]_vars

\* the value of an operand when a = x and b = y
RECURSIVE Value(_, _, _)
Value(e, x, y) ==
    CASE e.k = "Id"  -> IF e.name = "a" THEN x ELSE y
      [] e.k = "Num" -> e.v
      [] e.k = "Not" -> IF Value(e.operand, x, y) = 0 THEN 1 ELSE 0
      [] e.k = "Cmp" -> IF Value(e.left, x, y) = Value(e.right, x, y) THEN 1 ELSE 0
      [] e.k = "Log" ->
            IF e.op = "and"
            THEN IF Value(e.left, x, y) # 0 /\ Value(e.right, x, y) # 0 THEN 1 ELSE 0
            ELSE IF Value(e.left, x, y) # 0 \/ Value(e.right, x, y) # 0 THEN 1 ELSE 0

\* the logical operation of the program, and the value of an operand of it
TheLogical == program.statements[Len(program.statements)].value
ValueOf(e) == Value(e, program.meta.x, program.meta.y)

\* the left operand decides the result
LeftDecides ==
    IF TheLogical.op = "and" THEN ValueOf(TheLogical.left) = 0
    ELSE ValueOf(TheLogical.left) # 0

\* the END label of the operation is the last one emitted, its FALSE or TRUE
\* label stands two lines before it
EndLine == CHOOSE i \in 1..Len(output) :
               /\ output[i].op = "LABEL" /\ HasPrefix(output[i].l, "END")
               /\ \A j \in (i + 1)..Len(output) :
                     ~(output[j].op = "LABEL" /\ HasPrefix(output[j].l, "END"))
ShortLine == EndLine - 2

\* the two conditional jumps to that label: after the left operand, after the right
ShortJumps == {i \in 1..Len(output) :
                  output[i].op \in {"JZ", "JNZ"} /\ output[i].l = output[ShortLine].l}

\* the lines emitted for the right operand and its test
RightLines == {i \in 1..Len(output) :
                  /\ \E j \in ShortJumps : j < i
                  /\ \E j \in ShortJumps : i <= j}

\* C10: the run never leaves the emitted instructions; when the left operand
\* decides, no line emitted for the right operand is executed; at the END
\* label A is 1 or 0, the and / or of (a # 0) and (b # 0), and that is the
\* value stored
C10_ShortCircuit ==
    phase = "running" =>
        /\ cpu.status # "wild"
        /\ (cpu.status = "run" /\ LeftDecides) => cpu.pc \notin RightLines
        /\ (cpu.status = "run" /\ cpu.pc = NextCode(output, EndLine))
              => cpu.A = ValueOf(TheLogical)
        /\ cpu.status = "exit" => Rd(mem, SlotAddr("r")) = ValueOf(TheLogical)

\* the operands that are variables, comparisons of bytes and nested and / or
PlainOperand(e) == e.k # "Not"

\* the same when no operand is a logical not
C10_PlainOperands ==
    (PlainOperand(TheLogical.left) /\ PlainOperand(TheLogical.right))
        => C10_ShortCircuit

\* ------------------------------------------------------------------------
\* Case statements (SpecCase)
\* ------------------------------------------------------------------------

\* the values of the scrutinee and of the when-arms; 1 and 257 share the low byte
CaseValues == {1, 2, 257}
Scrutinees == CaseValues \cup {3}

\* the value lists of an arm: one value, or two different values
CaseLists ==
    {<<v>> : v \in CaseValues}
    \cup {l \in {<<v, w>> : v \in CaseValues, w \in CaseValues} : l[1] # l[2]}

\* the marker the else body stores
ElseMarker == 8 + 1

\* arm k stores k in m
CaseArm(values, k) == When([i \in 1..Len(values) |-> Num(values[i])],
                           <<Assign(Id("m"), Num(k))>>)

\* var s: uint16; var m: uint8; s := x; case s is when ...: m := 1; ... end case;
CaseProgram(x, lists, with_else) ==
    Program([family |-> "case", x |-> x, lists |-> lists, with_else |-> with_else],
            <<>>,
            <<VarDecl("s", U16, None), VarDecl("m", U8, None),
              Assign(Id("s"), Num(x)),
              Case(Id("s"), [k \in 1..Len(lists) |-> CaseArm(lists[k], k)],
                   IF with_else THEN <<Assign(Id("m"), Num(ElseMarker))>> ELSE <<>>)>>)

CasePrograms ==
    {CaseProgram(x, lists, e) :
        x \in Scrutinees,
        lists \in {<<l>> : l \in CaseLists}
                  \cup {<<l1, l2>> : l1 \in CaseLists, l2 \in CaseLists},
        e \in BOOLEAN}

CaseInit == InitWith(CasePrograms)
SpecCase == CaseInit /\ [][Next]_vars

\* the arms that list a value equal to the scrutinee
MatchingArms ==
    {k \in 1..Len(program.meta.lists) :
        \E i \in 1..Len(program.meta.lists[k]) :
            program.meta.lists[k][i] = program.meta.x}

\* the marker of the body that is to run, 0 when none is
ExpectedMarker ==
    IF MatchingArms # {}
    THEN CHOOSE k \in MatchingArms : \A j \in MatchingArms : k <= j
    ELSE IF program.meta.with_else THEN ElseMarker ELSE 0

\* a body is about to store its marker
StoresMarker == Running /\ output[cpu.pc].op = "STA" /\ output[cpu.pc].l = mangle_name("m")

\* C11: the only body that runs is that of the first arm listing a value
\* equal to the scrutinee, or the else body when no arm does
C11_FirstMatch ==
    phase = "running" =>
        /\ cpu.status # "wild"
        /\ StoresMarker => cpu.A = ExpectedMarker
        /\ (cpu.status = "exit" /\ ExpectedMarker # 0)
              => Rd(mem, SlotAddr("m")) = ExpectedMarker

\* the arms with one value only
SingleValued == \A k \in 1..Len(program.meta.lists) : Len(program.meta.lists[k]) = 1

\* the same for case statements whose arms list one value each
C11_SingleValued == SingleValued => C11_FirstMatch

\* ------------------------------------------------------------------------
\* Array element stores and address-of (SpecArray)
\* ------------------------------------------------------------------------

\* elements of the array
ArrayLen == 3

ArrayOf(elem_size) == [size |-> ArrayLen * elem_size, elem |-> elem_size]

\* var g: uint8; var arr: T[ArrayLen]; var i: uint8; var j: uint16; var w: uint16;
\* var p: uint16;
ArrayGlobals(elem_size) ==
    <<VarDecl("g", U8, None), VarDecl("arr", ArrayOf(elem_size), None),
      VarDecl("i", U8, None), VarDecl("j", U16, None), VarDecl("w", U16, None),
      VarDecl("p", U16, None)>>

\* the values stored: both bytes differ from the fills and from each other
StoreValues == {4660, 44031}

\* the index as a literal, as a byte variable, as a word variable
IndexKinds == {"Num", "i", "j"}

\* the value as a literal or as a word variable
ValueKinds == {"Num", "w"}

\* [i := ix;] [w := v;] arr[ix] := v;
StoreProgram(elem_size, ix, ikind, v, vkind) ==
    Program([family |-> "store", elem_size |-> elem_size, ix |-> ix, v |-> v], <<>>,
            ArrayGlobals(elem_size)
            \o (IF ikind = "Num" THEN <<>> ELSE <<Assign(Id(ikind), Num(ix))>>)
            \o (IF vkind = "Num" THEN <<>> ELSE <<Assign(Id("w"), Num(v))>>)
            \o <<Assign(Index(Id("arr"),
                              IF ikind = "Num" THEN Num(ix) ELSE Id(ikind),
                              elem_size, elem_size),
                        IF vkind = "Num" THEN Num(v) ELSE Id("w"))>>)

StorePrograms ==
    {StoreProgram(es, ix, ikind, v, vkind) :
        es \in {1, 2}, ix \in 0..(ArrayLen - 1), ikind \in IndexKinds,
        v \in StoreValues, vkind \in ValueKinds}

\* operands of & that gen_expr handles, and operands it does not
AddrSupported == {Id("w"), Index(Id("arr"), Num(1), 2, 2), Index(Id("arr"), Id("i"), 2, 2)}
AddrUnsupported == {Num(5), Bin("+", Id("w"), Num(1), 2), Deref(Id("p"), 2)}

\* p := &operand;
AddrProgram(operand) ==
    Program([family |-> "addr", supported |-> operand \in AddrSupported], <<>>,
            ArrayGlobals(2) \o <<Assign(Id("p"), AddrOf(operand))>>)

AddrPrograms == {AddrProgram(e) : e \in AddrSupported \cup AddrUnsupported}

ArrayInit == InitWith(StorePrograms \cup AddrPrograms)
SpecArray == ArrayInit /\ [][Next]_vars

\* C12: generating a program that applies & to an operand that is no
\* identifier, field access or array access ends in an error, not in a text
C12_AddressOfRejected ==
    (program.meta.family = "addr" /\ ~program.meta.supported /\ phase # "parsed")
        => phase = "failed"

\* the stores of the statements that set the index and value variables
SetupStores ==
    {i \in 1..Len(output) :
        /\ output[i].op \in {"STA", "SHLD"}
        /\ output[i].l \in {mangle_name("i"), mangle_name("j"), mangle_name("w")}}

\* the first line of the array assignment
StoreStart ==
    NextCode(output,
             1 + (IF SetupStores = {} THEN LabelIndex(output, "_main")
                  ELSE CHOOSE i \in SetupStores : \A j \in SetupStores : j <= i))

\* the bytes of arr[ix]
TargetAddr == SlotAddr("arr") + program.meta.ix * program.meta.elem_size
TargetBytes == TargetAddr..(TargetAddr + program.meta.elem_size - 1)

\* the element holds the low bytes of v, low byte first
TargetHolds ==
    IF program.meta.elem_size = 1 THEN Rd(mem, TargetAddr) = program.meta.v % 256
    ELSE Rd16(mem, TargetAddr) = program.meta.v

\* the array assignment is being executed
InStore ==
    /\ program.meta.family = "store"
    /\ Running /\ cpu.pc >= StoreStart

\* the line after the array assignment: the JMP 0 of the main code
AtStoreEnd == InStore /\ output[cpu.pc] = OpN("JMP", "", 0)

\* C13: no instruction of arr[i] := v changes a byte outside the stack other
\* than the s bytes at v_arr + i*s; after the statement these hold the low s
\* bytes of v, low byte first, and SP is what it was before the statement
C13_ArrayStore ==
    [][InStore =>
          /\ cpu'.status # "wild"
          /\ \A a \in (DOMAIN mem) \ StackAddrs : mem'[a] # mem[a] => a \in TargetBytes
          /\ AtStoreEnd' => (TargetHolds' /\ cpu'.SP = StackTop)]_vars

\* the word 44031 has been stored to the last element of the word array
\* through index and value variables
C13_Witness ==
    /\ AtStoreEnd
    /\ program.meta.elem_size = 2 /\ program.meta.ix = ArrayLen - 1
    /\ program.meta.v = 44031
    /\ \E i \in StoreStart..cpu.pc : output[i] = OpL("LHLD", "", mangle_name("j"))
    /\ \E i \in StoreStart..cpu.pc : output[i] = OpL("LHLD", "", mangle_name("w"))
    /\ TargetHolds
    /\ Rd(mem, SlotAddr("g")) \in Fills

\* ------------------------------------------------------------------------
\* The return value across the caller's cleanup (SpecCall)
\* ------------------------------------------------------------------------

\* what f leaves in HL at its RET: its return r, zero-extended when one byte
ReturnedValue == IF program.meta.ret = 1 THEN RetValue % 256 ELSE RetValue

\* f is at its RET
AtCalleeRet == Running /\ ~InMain(cpu.pc) /\ output[cpu.pc].op = "RET"

\* C14: after the cleanup of a call with n >= 1 arguments HL holds the value
\* the callee left in HL at its RET
C14_ReturnValueKept ==
    (NArgs >= 1 /\ program.meta.ret # 0) =>
        /\ AtCalleeRet => HL(cpu) = ReturnedValue
        /\ AfterCleanup => HL(cpu) = ReturnedValue

\* the same for calls with one or two arguments, whose cleanup is POP D
C14_ShortCleanup == NArgs <= 2 => C14_ReturnValueKept

\* ------------------------------------------------------------------------
\* Return statements (SpecReturn)
\* ------------------------------------------------------------------------

\* the bodies of f: r is assigned, then the body ends or returns, with or
\* without another statement in between; t is a top-level uint16 variable
ReturnBodies ==
    {<<Assign(Id("r"), Num(RetValue))>>,
     <<Assign(Id("r"), Num(RetValue)), Return>>,
     <<Assign(Id("r"), Num(RetValue)), Assign(Id("t"), Num(7))>>,
     <<Assign(Id("r"), Num(RetValue)), Assign(Id("t"), Num(7)), Return>>,
     <<Assign(Id("r"), Num(RetValue)), If(Id("t"), <<Return>>, <<>>, <<>>),
       Assign(Id("r"), Num(1))>>,
     <<Assign(Id("t"), Num(7)), If(Id("t"), <<Return>>, <<>>, <<>>),
       Assign(Id("r"), Num(1))>>}

\* sub f(): (r: T) is body end sub; var t: uint16; f();
ReturnProgram(ret, body) ==
    Program([family |-> "return", ret |-> ret,
             returns |-> \E i \in 1..Len(body) : body[i].k \in {"Return", "If"}],
            <<SubDecl("f", "", <<>>, <<Slot("r", TypeOfSize(ret))>>, TRUE, body)>>,
            <<VarDecl("t", U16, None), ExprStmt(CallOf(Id("f"), <<>>, ret))>>)

ReturnPrograms == {ReturnProgram(ret, body) : ret \in {1, 2}, body \in ReturnBodies}

ReturnInit == InitWith(ReturnPrograms)
SpecReturn == ReturnInit /\ [][Next]_vars

\* the current value of the first return slot, zero-extended when one byte
ReturnSlotValue ==
    IF program.meta.ret = 1 THEN Rd(mem, SlotAddr("r")) ELSE Rd16(mem, SlotAddr("r"))

\* C15: at every RET of a subroutine that declares a return, whether of a
\* return statement or of the end of the body, HL holds the current value of
\* the first return slot
C15_ReturnLoadsSlot == AtCalleeRet => HL(cpu) = ReturnSlotValue

\* the same for the bodies without a return statement
C15_FallOffEnd == ~program.meta.returns => C15_ReturnLoadsSlot

\* ------------------------------------------------------------------------
\* Multi-target assignments (SpecMulti)
\* ------------------------------------------------------------------------

\* return i (from 0) of f is r<i>, assigned the value MultiValue(i)
ReturnName(i) == "r" \o ToString(i)
TargetName(i) == "t" \o ToString(i)
MultiValue(i) == RetValue + 257 * i

\* sub f(p0...): (r0: R0, r1: R1, ...) is r0 := ...; r1 := ...; end sub
MultiCallee(nargs, rsizes) ==
    SubDecl("f", "",
            [i \in 1..nargs |-> Slot(ParamName(i - 1), U16)],
            [i \in 1..Len(rsizes) |-> Slot(ReturnName(i - 1), TypeOfSize(rsizes[i]))],
            TRUE,
            [i \in 1..Len(rsizes) |-> Assign(Id(ReturnName(i - 1)), Num(MultiValue(i - 1)))])

\* var t0: R0; var t1: R1; ...; (t0, t1, ...) := f(args);
MultiProgram(nargs, rsizes) ==
    Program([family |-> "multi", sizes |-> [i \in 1..nargs |-> 2], rsizes |-> rsizes],
            <<MultiCallee(nargs, rsizes)>>,
            [i \in 1..Len(rsizes) |-> VarDecl(TargetName(i - 1), TypeOfSize(rsizes[i]), None)]
            \o <<MultiAssign([i \in 1..Len(rsizes) |-> Id(TargetName(i - 1))],
                              CallOf(Id("f"), CallArgs(nargs), rsizes[1]))>>)

\* two or three returns of one or two bytes, no argument up to two
MultiPrograms ==
    {MultiProgram(nargs, rsizes) :
        nargs \in 0..2, rsizes \in SizeSeqs(2) \cup SizeSeqs(3)}

MultiInit == InitWith(MultiPrograms)
SpecMulti == MultiInit /\ [][Next]_vars

\* target i holds return i at the target's width
TargetHoldsReturn(i) ==
    IF program.meta.rsizes[i + 1] = 1
    THEN Rd(mem, SlotAddr(TargetName(i))) = MultiValue(i) % 256
    ELSE Rd16(mem, SlotAddr(TargetName(i))) = MultiValue(i)

\* C16: after (t0, ..., tk) := f(...) every target ti holds f's return i and
\* SP is what it was before the statement
C16_MultiAssign ==
    AfterCleanup =>
        /\ \A i \in 0..(Len(program.meta.rsizes) - 1) : TargetHoldsReturn(i)
        /\ cpu.SP = StackTop

\* the first target alone: it receives the return that arrives in HL
C16_FirstTarget == AfterCleanup => TargetHoldsReturn(0)

\* ------------------------------------------------------------------------
\* Declarations with initializers (SpecInit)
\* ------------------------------------------------------------------------

\* element i (from 0) of an array initializer
ElemValue(i) == RetValue + 257 * i

\* the initializers: a number, an array of two or three elements, a string
Initializers ==
    {[kind |-> "scalar", size |-> z, len |-> 1] : z \in {1, 2}}
    \cup {[kind |-> "array", size |-> z, len |-> n] : z \in {1, 2}, n \in {2, 3}}
StringInitializer == [kind |-> "string", size |-> 2, len |-> 1]

\* var x: T := init;
InitDecl(init) ==
    VarDecl("x",
            IF init.kind = "array" THEN [size |-> init.len * init.size, elem |-> init.size]
            ELSE TypeOfSize(init.size),
            CASE init.kind = "scalar" -> Num(ElemValue(0))
              [] init.kind = "array"  -> ArrayLit([i \in 1..init.len |-> Num(ElemValue(i - 1))])
              [] init.kind = "string" -> Str(<<104, 105>>))

\* the declaration at the top level, or as a local of f, which the main code calls
InitProgram(init, place) ==
    Program([family |-> "init", init |-> init, place |-> place],
            IF place = "local"
            THEN <<SubDecl("f", "", <<>>, <<>>, TRUE, <<InitDecl(init)>>)>>
            ELSE <<>>,
            IF place = "local"
            THEN <<ExprStmt(CallOf(Id("f"), <<>>, 0))>>
            ELSE <<InitDecl(init)>>)

InitPrograms == {InitProgram(init, place) : init \in Initializers, place \in {"global", "local"}}
InitStrPrograms == {InitProgram(StringInitializer, place) : place \in {"global", "local"}}

DeclaredInit == InitWith(InitPrograms) \/ InitWith(InitStrPrograms)
SpecInit == DeclaredInit /\ [][Next]_vars

\* x holds its initializer at the declared width
Initialized ==
    LET init == program.meta.init
        at(i) == SlotAddr("x") + i * init.size
    IN  CASE init.kind = "string" ->
                \E j \in DbLines : /\ output[j].d = <<104, 105, 0>>
                                    /\ Rd16(mem, at(0)) = LineAddr(output, j)
          [] OTHER ->
                \A i \in 0..(init.len - 1) :
                    IF init.size = 1 THEN Rd(mem, at(i)) = ElemValue(i) % 256
                    ELSE Rd16(mem, at(i)) = ElemValue(i)

\* C17: once the code of a declaration with an initializer has run, the
\* variable holds the initializer, for a top-level variable and for a local
C17_Initialized == AfterCleanup => Initialized

\* the same for the locals, which the program pre-pass has not allocated
C17_Locals == program.meta.place = "local" => C17_Initialized

\* ------------------------------------------------------------------------
\* Comparisons of words (SpecCompare)
\* ------------------------------------------------------------------------

CompareOps == {"==", "!=", "<", ">=", ">", "<="}

\* operand values with equal and with different high and low bytes
CompareValues == {0, 1, 2, 256, 257, 513}

\* var x: uint16; var y: uint16; var c: uint8; x := l; y := r; c := x op y;
CompareProgram(op, l, r) ==
    Program([family |-> "compare", op |-> op, l |-> l, r |-> r], <<>>,
            <<VarDecl("x", U16, None), VarDecl("y", U16, None), VarDecl("c", U8, None),
              Assign(Id("x"), Num(l)), Assign(Id("y"), Num(r)),
              Assign(Id("c"), Cmp(op, Id("x"), Id("y")))>>)

ComparePrograms ==
    {CompareProgram(op, l, r) : op \in CompareOps, l \in CompareValues, r \in CompareValues}

CompareInit == InitWith(ComparePrograms)
SpecCompare == CompareInit /\ [][Next]_vars

\* l op r as a comparison of unsigned words
Holds(op, l, r) ==
    CASE op = "==" -> l = r
      [] op = "!=" -> l # r
      [] op = "<"  -> l < r
      [] op = ">=" -> l >= r
      [] op = ">"  -> l > r
      [] op = "<=" -> l <= r

Truth == IF Holds(program.meta.op, program.meta.l, program.meta.r) THEN 1 ELSE 0

\* C18: the code of a comparison never leaves the emitted instructions, comes
\* to its END label with A = 1 when l op r holds and A = 0 when not, and that
\* value is what the assignment stores
C18_Comparison ==
    phase = "running" =>
        /\ cpu.status # "wild"
        /\ (cpu.status = "run" /\ cpu.pc = NextCode(output, EndLine)) => cpu.A = Truth
        /\ cpu.status = "exit" => Rd(mem, SlotAddr("c")) = Truth

\* the same for operands with equal high bytes, where JNZ $+6 is not taken
C18_EqualHighBytes ==
    (program.meta.l \div 256 = program.meta.r \div 256) => C18_Comparison

\* ------------------------------------------------------------------------
\* Expressions and their targets (SpecExpr)
\* ------------------------------------------------------------------------

\* the values of the byte variable b and of the word variable w
ByteValue == 12 * 16 + 13
WordValue == 18 * 256 + 52

\* the expression kinds, but for the string literal
PlainKinds == {"Num", "Nil", "Id8", "Id16", "Sub", "Deref8", "Deref16", "Next", "Prev",
               "AddrOf", "Cast", "Neg", "Call", "BytesOf", "Index"}

\* the expression of a kind; p points to w, f is a subroutine returning RetValue
ExprOf(kind) ==
    CASE kind = "Num"     -> Num(WordValue)
      [] kind = "Nil"     -> NilLit
      [] kind = "Id8"     -> Id("b")
      [] kind = "Id16"    -> Id("w")
      [] kind = "Sub"     -> Id("f")
      [] kind = "Deref8"  -> Deref(Id("p"), 1)
      [] kind = "Deref16" -> Deref(Id("p"), 2)
      [] kind = "Next"    -> NextOf(Id("p"), TRUE, 2)
      [] kind = "Prev"    -> PrevOf(Id("p"), TRUE, 2)
      [] kind = "AddrOf"  -> AddrOf(Id("w"))
      [] kind = "Cast"    -> Cast(Id("w"))
      [] kind = "Neg"     -> Un("-", Id("w"))
      [] kind = "Call"    -> CallOf(Id("f"), <<>>, 2)
      [] kind = "BytesOf" -> BytesOf(2)
      [] kind = "Index"   -> Index(Id("w"), Num(0), 2, 2)
      [] kind = "Str"     -> Str(<<104>>)

\* sub f(): (r: uint16) is r := RetValue; end sub;
\* var b: uint8; var w: uint16; var p: [uint16]; var c: uint8; var d: uint16;
\* b := ByteValue; w := WordValue; p := &w;
\* then d := e (target HL), or c := e or 0 (e is generated with target A)
ExprProgram(kind, target) ==
    Program([family |-> "expr", kind |-> kind, target |-> target],
            <<SubDecl("f", "", <<>>, <<Slot("r", U16)>>, TRUE,
                      <<Assign(Id("r"), Num(RetValue))>>)>>,
            <<VarDecl("b", U8, None), VarDecl("w", U16, None), VarDecl("p", U16, None),
              VarDecl("c", U8, None), VarDecl("d", U16, None),
              Assign(Id("b"), Num(ByteValue)), Assign(Id("w"), Num(WordValue)),
              Assign(Id("p"), AddrOf(Id("w"))),
              IF target = "HL" THEN Assign(Id("d"), ExprOf(kind))
              ELSE Assign(Id("c"), Log("or", ExprOf(kind), Num(0)))>>)

ExprPrograms == {ExprProgram(kind, target) : kind \in PlainKinds, target \in {"A", "HL"}}
ExprStrPrograms == {ExprProgram("Str", target) : target \in {"A", "HL"}}

ExprInit == InitWith(ExprPrograms) \/ InitWith(ExprStrPrograms)
SpecExpr == ExprInit /\ [][Next]_vars

\* the value of the expression
ExprValue ==
    LET kind == program.meta.kind
    IN  CASE kind \in {"Num", "Id16", "Deref16", "Cast", "Index"} -> WordValue
          [] kind = "Nil"     -> 0
          [] kind = "Id8"     -> ByteValue
          [] kind = "Sub"     -> LineAddr(output, LabelIndex(output, mangle_sub_name("f")))
          [] kind = "Deref8"  -> WordValue % 256
          [] kind = "Next"    -> SlotAddr("w") + 2
          [] kind = "Prev"    -> SlotAddr("w") - 2
          [] kind = "AddrOf"  -> SlotAddr("w")
          [] kind = "Neg"     -> 65536 - WordValue
          [] kind = "Call"    -> RetValue
          [] kind = "BytesOf" -> 2
          [] kind = "Str"     -> LineAddr(output, CHOOSE j \in DbLines : TRUE)

\* the code of the expression has been executed: control is at the ORA A
\* that tests A (target A), or at the store of HL to d (target HL)
AtTargetUse ==
    /\ Running /\ InMain(cpu.pc)
    /\ IF program.meta.target = "A" THEN output[cpu.pc] = OpR("ORA", "A")
       ELSE output[cpu.pc] = OpL("SHLD", "", mangle_name("d"))
    /\ \A i \in (LabelIndex(output, "_main") + 1)..(cpu.pc - 1) :
          output[i] # OpR("ORA", "A")

\* C19: after the code of an expression, A holds the low byte of its value
\* when the target is A, and HL its 16-bit value when the target is HL
C19_ValueInTarget ==
    AtTargetUse =>
        IF program.meta.target = "A" THEN cpu.A = ExprValue % 256
        ELSE HL(cpu) = ExprValue

\* the same for the target HL alone
C19_TargetHL == program.meta.target = "HL" => C19_ValueInTarget

\* ---------------------------------------------------------------------------
\* 1-byte shifts by a variable count
\* ---------------------------------------------------------------------------

ShiftOps    == {"<<", ">>"}
ShiftValues == {0, 1, 129, 255}
ShiftCounts == {0, 1, 2, 7, 8, 255}

\* var a: uint8; var b: uint8; var r: uint8; a := x; b := n; r := a op b;
ShiftProgram(op, x, n) ==
    Program([family |-> "shift", op |-> op, x |-> x, n |-> n], <<>>,
            <<VarDecl("a", U8, None), VarDecl("b", U8, None), VarDecl("r", U8, None),
              Assign(Id("a"), Num(x)), Assign(Id("b"), Num(n)),
              Assign(Id("r"), Bin(op, Id("a"), Id("b"), 1))>>)

ShiftPrograms ==
    {ShiftProgram(op, x, n) : op \in ShiftOps, x \in ShiftValues, n \in ShiftCounts}

ShiftInit == InitWith(ShiftPrograms)
SpecShift == ShiftInit /\ [][Next]_vars

\* x shifted n times by one bit, within a byte
RECURSIVE Shifted(_, _, _)
Shifted(op, x, n) ==
    IF n = 0 THEN x
    ELSE Shifted(op, IF op = "<<" THEN (2 * x) % 256 ELSE x \div 2, n - 1)

ShiftResult == Shifted(program.meta.op, program.meta.x, program.meta.n)

\* the end label of the loop: SHLE<n> or SHRE<n>
ShiftEnd == CHOOSE i \in 1..Len(output) :
                /\ output[i].op = "LABEL"
                /\ HasPrefix(output[i].l, "SHLE") \/ HasPrefix(output[i].l, "SHRE")

AtShiftEnd == /\ phase = "running" /\ cpu.status = "run"
              /\ cpu.pc = NextCode(output, ShiftEnd)

\* C20: the shift loop comes to its end label with A = (x * 2^n) mod 256 for
\* << and A = floor(x / 2^n) for >>
C20_ShiftLoop == AtShiftEnd => cpu.A = ShiftResult

\* at the end label the count is used up, the shifted value stands in C and A
\* holds the count, 0
C20_ResultInC == AtShiftEnd => cpu.B = 0 /\ cpu.C = ShiftResult /\ cpu.A = 0

\* the loop never leaves the emitted instructions and the program comes to its
\* exit, so that the loop has terminated
C20_Terminates == phase = "running" => cpu.status # "wild"
C20_Exits == <>(phase = "running" /\ cpu.status = "exit")
SpecShiftFair == SpecShift /\ WF_vars(Next)

\* ---------------------------------------------------------------------------
\* Logical not
\* ---------------------------------------------------------------------------

NotValues == 0..255

\* var a: uint8; var r: uint8 (or uint16); a := x; r := not a;
NotProgram(x, width) ==
    Program([family |-> "not", x |-> x, width |-> width], <<>>,
            <<VarDecl("a", U8, None), VarDecl("r", TypeOfSize(width), None),
              Assign(Id("a"), Num(x)),
              Assign(Id("r"), Not(Id("a")))>>)

NotPrograms == {NotProgram(x, width) : x \in NotValues, width \in {1, 2}}

NotInit == InitWith(NotPrograms)
SpecNot == NotInit /\ [][Next]_vars

\* the JNZ $+4 of the sequence, and the instruction that follows the sequence
NotJump  == CHOOSE i \in 1..Len(output) : output[i].op = "JNZ" /\ output[i].l = "$"
AfterNot == NextCode(output, NotJump + 2)

NotResult == IF program.meta.x = 0 THEN 1 ELSE 0

\* C21: the code of logical not stays within the emitted instructions and
\* comes to the instruction after the sequence with A = 0 for an operand
\* that is not zero and A = 1 for the operand zero
C21_LogicalNot ==
    phase = "running" =>
        /\ cpu.status # "wild"
        /\ (cpu.status = "run" /\ cpu.pc = AfterNot) => cpu.A = NotResult

\* the same for the operand zero alone, where the jump is not taken
C21_ZeroOperand == program.meta.x = 0 => C21_LogicalNot

\* with an operand that is not zero the jump is taken, and the run never comes
\* to the instruction after the sequence or to the exit
C21_NonZeroDerails ==
    (phase = "running" /\ program.meta.x # 0) =>
        /\ cpu.status # "exit"
        /\ ~(cpu.status = "run" /\ cpu.pc = AfterNot)

\* ---------------------------------------------------------------------------
\* Nested loops with break and continue
\* ---------------------------------------------------------------------------

LoopLeaves == {Break, Continue}

\* the two kinds of loop around a body
LoopsOf(body) == {While(Num(1), body), Loop(body)}

\* loops of nesting depth 1, 2, 3: a leaf; an inner loop before or after a
\* leaf; a loop of depth 2 and a leaf after it
Loops1 == UNION {LoopsOf(<<t>>) : t \in LoopLeaves}
Loops2 == UNION {LoopsOf(<<l, t>>) \cup LoopsOf(<<t, l>>) : l \in Loops1, t \in LoopLeaves}
Loops3 == UNION {LoopsOf(<<l, t>>) : l \in Loops2, t \in LoopLeaves}

LoopProgram(depth, stmts) == Program([family |-> "loop", depth |-> depth], <<>>, stmts)

\* one loop; a loop and a leaf outside of it; two loops in a row
LoopPrograms ==
    {LoopProgram(1, <<l>>) : l \in Loops1}
    \cup {LoopProgram(2, <<l>>) : l \in Loops2}
    \cup {LoopProgram(3, <<l>>) : l \in Loops3}
    \cup {LoopProgram(1, <<l, t>>) : l \in Loops1, t \in LoopLeaves}
    \cup {LoopProgram(1, <<l, m>>) : l \in Loops1, m \in Loops1}

LoopInit == InitWith(LoopPrograms)
SpecLoop == LoopInit /\ [][Next]_vars

\* the lowering the claim describes, with the labels of the innermost
\* enclosing loop handed down (top, end; "" outside of every loop) and n labels
\* taken so far: a continue is JMP top, a break is JMP end
RECURSIVE Lexical(_, _, _, _, _)
Lexical(stmts, i, top, end, n) ==
    IF i > Len(stmts) THEN [lines |-> <<>>, n |-> n]
    ELSE LET s  == stmts[i]
             lo == (IF s.k = "While" THEN "WHILE" ELSE "LOOP") \o ToString(n + 1)
             en == (IF s.k = "While" THEN "ENDW" ELSE "ENDL") \o ToString(n + 2)
             test == IF s.k = "While"
                     THEN gen(NewGenerator(program.checker), s.condition, "A").output
                          \o <<OpR("ORA", "A"), OpL("JZ", "", en)>>
                     ELSE <<>>
             inner == Lexical(s.body, 1, lo, en, n + 2)
             head ==
                 CASE s.k = "Break" ->
                        [lines |-> IF end = "" THEN <<>> ELSE <<OpL("JMP", "", end)>>, n |-> n]
                   [] s.k = "Continue" ->
                        [lines |-> IF top = "" THEN <<>> ELSE <<OpL("JMP", "", top)>>, n |-> n]
                   [] OTHER ->
                        [lines |-> <<LabelLine(lo)>> \o test \o inner.lines
                                   \o <<OpL("JMP", "", lo), LabelLine(en)>>,
                         n |-> inner.n]
             rest == Lexical(stmts, i + 1, top, end, head.n)
         IN  [lines |-> head.lines \o rest.lines, n |-> rest.n]

\* the lines of the main code: after _main:, before the closing JMP 0
MainExit == CHOOSE i \in 1..Len(output) :
                InMain(i) /\ output[i] = OpN("JMP", "", 0)
MainCode == SubSeq(output, LabelIndex(output, "_main") + 1, MainExit - 1)

\* label stacks a loop may be lowered under
OuterStacks == {<<>>, <<"X1">>, <<"X1", "X2">>}

\* the stacks after lowering statement s under the stacks br, co
StacksAfter(s, br, co) ==
    LET g == gen([NewGenerator(program.checker) EXCEPT !.break_labels = br,
                                                       !.continue_labels = co], s, "")
    IN  <<g.break_labels, g.continue_labels>>

\* C22: every continue is a jump to the top label and every break a jump to
\* the end label of the innermost enclosing loop, also after an inner loop;
\* lowering a loop leaves the break and continue stacks as they were
C22_LoopLabels ==
    phase # "parsed" =>
        /\ MainCode = Lexical(program.statements, 1, "", "", 0).lines
        /\ break_labels = <<>> /\ continue_labels = <<>>
        /\ \A br \in OuterStacks : \A co \in OuterStacks :
              StacksAfter(program.statements[1], br, co) = <<br, co>>

\* a loop of depth 3 has been lowered, with a break or continue right after the
\* end label of an inner loop
C22_Witness ==
    /\ phase = "emitted" /\ program.meta.depth = 3
    /\ \E i \in 1..(Len(output) - 1) :
          /\ output[i].op = "LABEL" /\ HasPrefix(output[i].l, "END")
          /\ output[i + 1].op = "JMP" /\ output[i + 1].l # ""
          /\ \E j \in 1..(i - 1) : output[j].op = "JMP" /\ output[j].l # ""

\* ---------------------------------------------------------------------------
\* Nested subroutine declarations
\* ---------------------------------------------------------------------------

NestedShapes == {"one", "siblings", "deep", "inside"}
NestedPlaces == {"sub", "main"}
NestedMarks  == {1, 2, 3}

\* sub <name>() is <body> end sub;
PlainSub(name, body) == SubDecl(name, "", <<>>, <<>>, TRUE, body)

\* the statement list that declares the nested subroutines: n1 alone; n1 and
\* n2 side by side; n2 inside n1; n1 inside the body of an if.  The innermost
\* bodies are m := x
NestedBody(shape, x) ==
    LET leaf(name) == PlainSub(name, <<Assign(Id("m"), Num(x))>>)
    IN  CASE shape = "one"      -> <<NestedSub(leaf("n1")), Assign(Id("m"), Num(0))>>
          [] shape = "siblings" -> <<NestedSub(leaf("n1")), NestedSub(leaf("n2"))>>
          [] shape = "deep"     ->
                <<NestedSub(PlainSub("n1", <<NestedSub(leaf("n2"))>>))>>
          [] shape = "inside"   ->
                <<If(Num(1), <<NestedSub(leaf("n1"))>>, <<>>, <<>>)>>

\* the declared subroutines with their enclosing subroutine; top is the one
\* the statement list stands in, "" for the main code
NestedIn(shape, top) ==
    CASE shape = "siblings" -> <<[name |-> "n1", parent |-> top],
                                 [name |-> "n2", parent |-> top]>>
      [] shape = "deep"     -> <<[name |-> "n1", parent |-> top],
                                 [name |-> "n2", parent |-> "n1"]>>
      [] OTHER              -> <<[name |-> "n1", parent |-> top]>>

\* var m: uint8; then the list in the body of sub f, called from the main
\* code, or in the main code itself
NestedProgram(shape, place, x) ==
    Program([family |-> "nested", shape |-> shape, place |-> place, x |-> x,
             nested |-> NestedIn(shape, IF place = "sub" THEN "f" ELSE "")],
            IF place = "sub" THEN <<PlainSub("f", NestedBody(shape, x))>> ELSE <<>>,
            <<VarDecl("m", U8, None)>>
            \o (IF place = "sub" THEN <<ExprStmt(CallOf(Id("f"), <<>>, 2))>>
                ELSE NestedBody(shape, x)))

NestedPrograms ==
    {NestedProgram(shape, place, x) :
        shape \in NestedShapes, place \in NestedPlaces, x \in NestedMarks}

NestedInit == InitWith(NestedPrograms)
SpecNested == NestedInit /\ [][Next]_vars

\* the lines that open subroutine name, and the names that have one
SubEntries(name) == {i \in 1..Len(output) : output[i] = LabelLine(mangle_sub_name(name))}
EmittedSubs == {name \in {"f", "n1", "n2"} : SubEntries(name) # {}}

\* the final RET of an emitted subroutine (no body here has a return) and its
\* instruction range
FinalRet(name) ==
    CHOOSE i \in 1..Len(output) :
        /\ i > LabelIndex(output, mangle_sub_name(name)) /\ output[i] = Op0("RET")
        /\ \A j \in (LabelIndex(output, mangle_sub_name(name)) + 1)..(i - 1) :
              output[j] # Op0("RET")
SubRange(name) == LabelIndex(output, mangle_sub_name(name))..FinalRet(name)

\* subroutine n.name is emitted once, outside the main code and every other
\* subroutine, after the final RET of its enclosing subroutine with nothing
\* but other nested subroutines in between
EmittedFlat(n) ==
    /\ Cardinality(SubEntries(n.name)) = 1
    /\ \A i \in SubEntries(n.name) :
          /\ ~InMain(i)
          /\ \A m \in EmittedSubs \ {n.name} : i \notin SubRange(m)
          /\ n.parent # "" =>
                /\ n.parent \in EmittedSubs /\ i > FinalRet(n.parent)
                /\ \A j \in (FinalRet(n.parent) + 1)..(i - 1) :
                      \/ LineLen(output[j]) = 0
                      \/ \E m \in EmittedSubs \ {n.name, n.parent} : j \in SubRange(m)

\* C23: every nested subroutine that a statement list declares is emitted
\* exactly once, right after the final RET of its enclosing subroutine and
\* inside no other subroutine nor the main code, and the queue of nested
\* subroutines is empty when the program has been generated
C23_NestedEmitted ==
    phase # "parsed" =>
        /\ nested_subs = <<>>
        /\ \A k \in 1..Len(program.meta.nested) : EmittedFlat(program.meta.nested[k])

\* the same for the declarations inside a subroutine body alone
C23_InSubroutines == program.meta.place = "sub" => C23_NestedEmitted

\* a nested subroutine declared in the main code stays in the queue and is
\* emitted nowhere
C23_MainDropped ==
    (phase # "parsed" /\ program.meta.place = "main") =>
        /\ Len(nested_subs) > 0
        /\ \A k \in 1..Len(program.meta.nested) : SubEntries(program.meta.nested[k].name) = {}
====
